---- MODULE Spec2Model ----
(***************************************************************************)
(* The replicated-object packet parser of src/gameclient/udk.py, and the   *)
(* votekick of a game server of src/login_server/gameserver.py.            *)
(*                                                                         *)
(* A bitarray is a sequence of 0/1, index 1 being Python index 0.  The     *)
(* bitarrays handed to the parser are little-endian (int2bitarray builds   *)
(* them with endian='little'), so bit i of a field weighs 2^i.             *)
(* Python's None is the empty tuple << >> : an optional field holds << >>  *)
(* or <<x>>, and the None key of class_dict is << >>.                      *)
(* Integers of TLC are 32-bit signed: the inputs keep bit 31 of every      *)
(* 32-bit field clear.                                                     *)
(***************************************************************************)
EXTENDS Integers, Sequences, FiniteSets, TLC

VARIABLES
  parser_state,       \* Parser.parser_state: class_dict, instance_count, channels
  last,               \* the last parsepacket call: its input and what it gave back
  called,             \* number of parsepacket calls made on this Parser
  introduced,         \* history: the instance names bound so far, in order
  float_quiets_snan,  \* build: struct's float<->double conversion quiets a signaling NaN
  other,              \* a second Parser() of the process: its parser_state and last call
  players,            \* GameServer.players: the unique ids, in the order of the dict
  vote,               \* the attribute vote of every player object
  player_being_kicked,  \* GameServer.player_being_kicked
  pending_callbacks,  \* login_server.pending_callbacks: the calls added and not yet made
  blacklist,          \* the rules of the firewall's blacklist
  votekicks,          \* history: number of votekicks started on this game server
  sent                \* what the last call on the game server did and sent

server_vars == <<players, vote, player_being_kicked, pending_callbacks, blacklist,
                 votekicks, sent>>

vars == <<parser_state, last, called, introduced, float_quiets_snan, other, server_vars>>

\* ------------------------------------------------------------------ bounds

MaxPackets == 3

\* the player objects of a session, and the votekicks started in it
MaxPlayers == 5

MaxVotekicks == 2

\* ------------------------------------------------------------ Python values

None == << >>

Some(x) == <<x>>

NoneKey == << >>

\* property_.get('size', None) when the table gives no size
NoSize == -1

Min(a, b) == IF a < b THEN a ELSE b

\* 'name = value' and the statements after it: Rest reads the value by name
Bind(value, Rest(_)) == Rest(value)

RECURSIVE DictFind(_, _, _)
DictFind(d, key, i) ==
  IF i > Len(d) THEN 0
  ELSE IF d[i][1] = key THEN i
  ELSE DictFind(d, key, i + 1)

\* dict.get(key, default) on a dict literal kept as its sequence of <<key, value>>
DictGet(d, key, default) ==
  LET i == DictFind(d, key, 1) IN IF i = 0 THEN default ELSE d[i][2]

Prop(name, type, size) ==
  [name |-> name, type |-> type, size |-> size, members |-> << >>, values |-> << >>]

PropChoice(name, type, size, values) ==
  [name |-> name, type |-> type, size |-> size, members |-> << >>, values |-> values]

PropList(name, members) ==
  [name |-> name, type |-> "list", size |-> NoSize, members |-> members, values |-> << >>]

PropTuple(name, members) ==
  [name |-> name, type |-> "tuple", size |-> NoSize, members |-> members, values |-> << >>]

Member(name, type, size) == [name |-> name, type |-> type, size |-> size]

\* a class descriptor; 'idsize' is absent until the first introduction sets it
ClassDesc(name, props) == [name |-> name, props |-> props, idsize |-> NoSize]

\* ---------------------------------------------------------------- errors

NoExc == << >>

ParseError(message, bitsleft) ==
  << [type |-> "ParseError", message |-> message, bitsleft |-> bitsleft] >>

RuntimeError(message) ==
  << [type |-> "RuntimeError", message |-> message, bitsleft |-> << >>] >>

TypeError(message) ==
  << [type |-> "TypeError", message |-> message, bitsleft |-> << >>] >>

\* ------------------------------------------------------ primitive codecs

RECURSIVE int2bits(_, _)
int2bits(n, k) == IF k = 0 THEN << >> ELSE <<n % 2>> \o int2bits(n \div 2, k - 1)

\* struct.pack('<L', n) read into a little-endian bitarray, cut to nbits
int2bitarray(n, nbits) == int2bits(n, Min(nbits, 32))

RECURSIVE tointFrom(_, _, _)
tointFrom(bits, i, n) == IF i > n THEN 0 ELSE bits[i] + 2 * tointFrom(bits, i + 1, n)

\* the first four bytes of bits.tobytes() + four zero bytes, unpacked as '<L'
toint(bits) == tointFrom(bits, 1, Min(Len(bits), 32))

\* struct.unpack('<f'): the binary32 is widened to a Python float (a double);
\* that conversion keeps every value but, on the builds where it quiets,
\* sets the quiet bit (fraction bit 22) of a signaling NaN
tofloat(bits) ==
  LET frac == toint(SubSeq(bits, 1, 23))
      exp == toint(SubSeq(bits, 24, 31))
      snan == exp = 255 /\ frac # 0 /\ bits[23] = 0
  IN [sign |-> bits[32], exp |-> exp,
      frac |-> IF snan /\ float_quiets_snan THEN frac + 4194304 ELSE frac]

\* struct.pack('<f', val)
float2bitarray(val) ==
  int2bitarray(val.frac, 23) \o int2bitarray(val.exp, 8) \o <<val.sign>>

getnbits(n, bits) ==
  IF n > Len(bits)
  THEN [exc |-> ParseError("Tried to get more bits (" \o ToString(n)
                             \o ") than are available (" \o ToString(Len(bits)) \o ")",
                           bits),
        got |-> << >>, bits |-> bits]
  ELSE [exc |-> NoExc, got |-> SubSeq(bits, 1, n), bits |-> SubSeq(bits, n + 1, Len(bits))]

\* byte k (from 0) of bits.tobytes(): the last byte is padded with zero bits
ByteAt(bits, k) == toint(SubSeq(bits, 8 * k + 1, Min(8 * k + 8, Len(bits))))

RECURSIVE stringbytes(_, _)
stringbytes(bits, k) ==
  IF 8 * k >= Len(bits) \/ ByteAt(bits, k) = 0 THEN << >>
  ELSE <<ByteAt(bits, k)>> \o stringbytes(bits, k + 1)

\* the characters up to the first zero byte, as their codes, and the bits after it
getstring(bits) ==
  LET result == stringbytes(bits, 0)
  IN [value |-> result, bits |-> SubSeq(bits, (Len(result) + 1) * 8 + 1, Len(bits))]

RECURSIVE to01(_)
to01(bits) ==
  IF bits = << >> THEN ""
  ELSE (IF Head(bits) = 1 THEN "1" ELSE "0") \o to01(Tail(bits))

\* --------------------------------------------------------- class registry


\* ------------------------------------------------- the game server's world

\* the player objects of the session, by unique_id
Players == 1..MaxPlayers

\* player.address_pair.get_address_seen_from(...): players 1 and 2 are seen
\* at one address, every other player at an address of their own
Address(p) == IF p = 2 THEN 1 ELSE p

\* a call on the game server: what it was, what it found, what it sent.
\* kickee is player_being_kicked and table the players table when the call
\* began; messages holds a pair <<receiver, message>> for every send;
\* scheduled holds the callbacks the call added and fired the one it ran as
Call(op, args) ==
  [op |-> op, args |-> args, kickee |-> << >>, table |-> << >>, took_effect |-> FALSE,
   tally |-> << >>, votekick_passed |-> << >>, messages |-> {}, scheduled |-> << >>,
   fired |-> << >>]
\* udk.py 40-50
TrInventoryManagerProps ==
  << <<<<0,1,1,1,1>>, Prop("Instigator", "bitarray", 10)>>,
     <<<<1,1,1,1,1>>, Prop("Owner", "bitarray", 10)>>,
     <<<<1,0,1,0,1>>, Prop("InventoryChain", "bitarray", 11)>> >>

\* udk.py 52-125
TrPlayerPawnProps ==
  << <<<<1,0,1,0,0,0,0>>, Prop("bNetOwner", "bool", NoSize)>>,
     <<<<1,1,0,1,0,0,0>>, Prop("RemoteRole", "bitarray", 2)>>,
     <<<<1,1,1,1,0,0,0>>, Prop("Owner", "bitarray", 11)>>,
     <<<<1,1,0,0,1,0,0>>, Prop("Rotation", "bitarray", 11)>>,
     <<<<1,0,0,1,1,0,0>>, Prop("InvManager", "bitarray", 11)>>,
     <<<<0,1,1,1,1,0,0>>, Prop("PlayerReplicationInfo", "bitarray", 11)>>,
     <<<<1,1,1,1,1,0,0>>, Prop("HealthMax", "int", NoSize)>>,
     <<<<0,0,0,0,0,1,0>>, Prop("Health", "int", NoSize)>>,
     <<<<1,0,0,0,0,1,0>>, Prop("AirControl", "int", NoSize)>>,
     <<<<0,1,1,0,0,1,0>>, Prop("GroundSpeed", "int", NoSize)>>,
     <<<<1,1,0,1,0,1,0>>, Prop("bCanSwatTurn", "bool", NoSize)>>,
     <<<<0,0,1,1,0,1,0>>, Prop("bSimulateGravity", "bool", NoSize)>>,
     <<<<1,1,1,1,0,1,0>>, Prop("Controller", "bitarray", 11)>>,
     <<<<1,0,0,0,1,1,0>>, Prop("CompressedBodyMatColor", "bitarray", 3)>>,
     <<<<0,1,0,0,1,1,0>>, Prop("ClientBodyMatDuration", "int", NoSize)>>,
     <<<<0,1,0,1,1,1,0>>, Prop("LastTakeHitInfo", "bitarray", 139)>>,
     <<<<1,0,0,1,0,0,1>>, Prop("CurrentWeaponAttachmentClass", "int", NoSize)>>,
     <<<<1,1,0,0,1,0,1>>, Prop("r_fPowerPoolRechargeRate", "int", NoSize)>>,
     <<<<0,0,1,0,1,0,1>>, Prop("r_fMaxPowerPool", "int", NoSize)>>,
     <<<<1,0,1,0,1,0,1>>, Prop("r_fCurrentPowerPool", "int", NoSize)>>,
     <<<<1,0,0,0,0,1,1>>, Prop("r_bDetectedByEnemyScanner", "bool", NoSize)>>,
     <<<<1,1,0,0,0,1,1>>, Prop("r_bIsInvulnerable", "bitarray", 1)>>,
     <<<<1,1,1,0,0,1,1>>, Prop("r_bIsSkiing", "bitarray", 1)>>,
     <<<<0,1,1,1,0,1,1>>, PropList("RPC ClientUpdateHUDHealth",
          <<Member("NewHealth", "int", NoSize),
            Member("NewHealthMax", "int", NoSize)>>)>>,
     <<<<1,1,1,1,0,1,1>>, Prop("RPC PlayHardLandingEffect", "bitarray", 53)>>,
     <<<<1,1,0,0,1,1,1>>, Prop("r_nFlashReloadSecondaryWeapon", "bitarray", 8)>> >>

\* udk.py 127-147
TrDeviceProps ==
  << <<<<1,0,0,0,0,1>>, Prop("r_AmmoCount", "bitarray", 64)>>,
     <<<<0,1,0,0,0,1>>, Prop("r_bIsReloading", "bool", NoSize)>>,
     <<<<1,1,0,0,0,1>>, Prop("r_bReadyToFire", "bool", NoSize)>>,
     <<<<0,0,1,0,0,1>>, Prop("r_eEquipAt", "bitarray", 4)>>,
     <<<<1,1,1,1,0,1>>, Prop("Owner", "bitarray", 10)>>,
     <<<<1,0,1,0,1,1>>, Prop("InvManager", "bitarray", 10)>>,
     <<<<0,1,1,0,1,1>>, Prop("Inventory", "bitarray", 10)>> >>

\* udk.py 149-156
TrRadarStationProps ==
  << <<<<0,0,0,1,1,1>>, Prop("r_bReset", "bitarray", 7)>>,
     <<<<0,1,0,1,1,1>>, Prop("r_ShieldHealth", "bitarray", 31)>> >>

\* udk.py 158-162
TrInventoryStationProps ==
  << <<<<0,0,0,1,1,1>>, Prop("r_bReset", "bitarray", 7)>> >>

\* udk.py 164-168
TrRepairStationProps ==
  << <<<<0,0,0,1,1,1>>, Prop("r_bReset", "bitarray", 7)>> >>

\* udk.py 171-181
TrInventoryStationCollisionProps ==
  << >>

\* udk.py 182-186
TrPowerGeneratorProps ==
  << <<<<1,1,1,1,1,0>>, Prop("r_MaxHealth", "bitarray", 31)>> >>

\* udk.py 190-415
TrPlayerControllerProps ==
  << <<<<0,1,0,0,0,0,0,0>>, Prop("bCollideWorld", "bitarray", 2)>>,
     <<<<1,1,0,0,0,0,0,0>>, PropList("RPC ClientMatchOver",
          <<Member("unknown", "flag", NoSize),
            Member("Winner", "int", NoSize),
            Member("WinnerName", "str", NoSize)>>)>>,
     <<<<0,0,1,0,0,0,0,0>>, Prop("!!!!!!!!!INTERESTING Unknown INTERESTING!!!!!!!!!", "bitarray", 10)>>,
     <<<<0,0,1,1,0,0,0,0>>, Prop("RPC ClientSetLastDamagerInfo", "bitarray", 35)>>,
     <<<<1,0,1,0,1,0,0,0>>, Prop("PlayerReplicationInfo", "bitarray", 11)>>,
     <<<<0,1,1,0,0,0,0,0>>, PropList("RPC UpdateMatchCountdown",
          <<Member("unknown", "flag", NoSize),
            Member("Seconds", "int", NoSize)>>)>>,
     <<<<0,1,1,0,1,0,0,0>>, Prop("Pawn", "bitarray", 11)>>,
     <<<<0,0,0,1,1,0,0,0>>, Prop("RPC ClientSetRotation", "bitarray", 2)>>,
     <<<<0,1,0,1,1,0,0,0>>, Prop("RPC ClientSwitchToBestWeapon", "bitarray", 1)>>,
     <<<<0,0,1,0,0,1,0,0>>, PropList("RPC ClientGotoState",
          <<Member("NewState", "bitarray", 11),
            Member("NewLabel", "bitarray", 11)>>)>>,
     <<<<0,1,1,0,0,1,0,0>>, PropList("RPC GivePawn",
          <<Member("NewPawn", "bitarray", 11)>>)>>,
     <<<<1,0,0,1,0,1,0,0>>, PropList("RPC ReceiveLocalizedMessage",
          <<Member("Message", "int", NoSize),
            Member("Switch", "int", NoSize),
            Member("RelatedPRI_1", "bitarray", 11),
            Member("RelatedPRI_2", "int", NoSize),
            Member("OptionalObject", "bitarray", 11)>>)>>,
     <<<<1,1,0,1,1,1,0,0>>, PropList("RPC VeryShortClientAdjustPosition",
          <<Member("TimeStamp", "float", NoSize),
            Member("NewLocX", "float", NoSize),
            Member("NewLocY", "float", NoSize),
            Member("NewLocZ", "float", NoSize),
            Member("newBase", "bitarray", 32)>>)>>,
     <<<<0,0,1,1,1,1,0,0>>, PropList("RPC ShortClientAdjustPosition",
          <<Member("TimeStamp", "float", NoSize),
            Member("newState", "bitarray", 11),
            Member("newPhysics", "bitarray", 4),
            Member("NewLocX", "float", NoSize),
            Member("NewLocY", "float", NoSize),
            Member("NewLocZ", "float", NoSize),
            Member("newBase", "bitarray", 32)>>)>>,
     <<<<0,1,1,1,1,1,0,0>>, PropList("RPC ClientAckGoodMove",
          <<Member("TimeStamp", "float", NoSize)>>)>>,
     <<<<1,1,1,1,1,1,0,0>>, PropList("RPC ClientAdjustPosition",
          <<Member("TimeStamp", "float", NoSize),
            Member("newState", "bitarray", 11),
            Member("newPhysics", "bitarray", 4),
            Member("NewLocX", "float", NoSize),
            Member("NewLocY", "float", NoSize),
            Member("NewLocZ", "float", NoSize),
            Member("NewVelX", "float", NoSize),
            Member("NewVelY", "float", NoSize),
            Member("NewVelZ", "float", NoSize),
            Member("newBase", "bitarray", 32)>>)>>,
     <<<<0,0,1,1,0,0,1,0>>, Prop("RPC ClientGameEnded", "bitarray", 2)>>,
     <<<<1,0,1,1,0,0,1,0>>, Prop("RPC ClientSetViewTarget", "bitarray", 81)>>,
     <<<<1,1,1,0,1,0,1,0>>, PropList("RPC ClientPlayForceFeedbackWaveform",
          <<Member("FFWaveform", "int", NoSize),
            Member("FFWaveformInstigator", "None", NoSize)>>)>>,
     <<<<1,0,1,1,0,1,1,0>>, PropList("RPC ClientWriteLeaderboardStats",
          <<Member("OnlineStatsWriteClass", "None", NoSize)>>)>>,
     <<<<1,1,1,0,1,1,1,0>>, Prop("RPC ClientEndOnlineGame", "flag", NoSize)>>,
     <<<<0,1,0,0,1,0,0,1>>, PropList("RPC PlayStartupMessage",
          <<Member("StartupStage", "bitarray", 8)>>)>>,
     <<<<1,1,0,0,1,0,0,1>>, Prop("RPC ClientPlayTakeHit", "bitarray", 43)>>,
     <<<<0,0,1,0,1,0,1,1>>, PropList("RPC ClientEndTeamSelect",
          <<Member("RequestedTeamNum", "int", NoSize)>>)>>,
     <<<<1,0,1,1,1,1,0,1>>, Prop("r_nCurrentCredits", "bitarray", 32)>>,
     <<<<0,1,0,0,0,0,1,1>>, Prop("r_bNeedLoadout", "bool", NoSize)>>,
     <<<<1,1,0,0,0,0,1,1>>, Prop("r_bNeedTeam", "bool", NoSize)>>,
     <<<<1,1,1,0,0,0,1,1>>, PropList("RPC ClientSeekingMissileTargetingSelfEvent",
          <<Member("EventSwitch", "int", NoSize)>>)>> >>

\* udk.py 417-430
TrBaseTurretProps ==
  << <<<<0,1,0,0,0,1>>, Prop("r_TargetPawn", "bitarray", 11)>>,
     <<<<1,1,0,0,0,1>>, Prop("r_FlashCount", "bitarray", 8)>>,
     <<<<0,0,0,1,1,1>>, Prop("r_bReset", "bitarray", 7)>>,
     <<<<0,1,0,1,1,1>>, Prop("r_ShieldHealth", "bitarray", 31)>> >>

\* udk.py 432-439
TrProj_BaseTurretProps ==
  << <<<<0,1,1,1,0,0>>, Prop("Rotation", "bitarray", 18)>>,
     <<<<0,0,0,0,0,1>>, Prop("Velocity", "bitarray", 42)>> >>

\* udk.py 441-454
TrProj_SpinfusorProps ==
  << <<<<1,0,0,0,0>>, Prop("bCollideActors", "bool", NoSize)>>,
     <<<<1,1,1,0,0>>, Prop("bTearOff", "bool", NoSize)>>,
     <<<<1,0,1,1,0>>, Prop("Base", "bitarray", 31)>>,
     <<<<1,0,0,1,1>>, Prop("r_vSpawnLocation", "bitarray", 52)>> >>

\* udk.py 456-468
TrDroppedPickupProps ==
  << <<<<1,0,1,1,0,1>>, Prop("InventoryClass", "bitarray", 31)>>,
     <<<<0,1,1,1,0,1>>, Prop("Base", "bitarray", 30)>>,
     <<<<1,1,0,0,1,1>>, Prop("Rotation", "bitarray", 10)>>,
     <<<<1,0,1,0,1,1>>, Prop("bFadeOut", "flag", NoSize)>> >>

\* udk.py 470-509
TrGameReplicationInfoProps ==
  << <<<<0,0,0,0,0,0>>, Prop("netflags", "bitarray", 5)>>,
     <<<<0,1,1,0,0,0>>, Prop("m_Flags", "bitarray", 20)>>,
     <<<<1,0,1,0,0,0>>, Prop("r_ServerConfig", "bitarray", 12)>>,
     <<<<1,1,1,0,0,0>>, Prop("FlagReturnTime", "bitarray", 41)>>,
     <<<<0,1,1,0,1,0>>, Prop("ServerName", "str", NoSize)>>,
     <<<<1,1,1,0,1,0>>, Prop("TimeLimit", "int", NoSize)>>,
     <<<<0,0,0,1,1,0>>, Prop("GoalScore", "int", NoSize)>>,
     <<<<1,0,0,1,1,0>>, Prop("RemainingMinute", "int", NoSize)>>,
     <<<<0,1,0,1,1,0>>, Prop("ElapsedTime", "int", NoSize)>>,
     <<<<1,1,0,1,1,0>>, Prop("RemainingTime", "int", NoSize)>>,
     <<<<1,0,1,1,1,0>>, Prop("bMatchIsOver", "bool", NoSize)>>,
     <<<<1,1,1,1,1,0>>, Prop("bStopCountDown", "bool", NoSize)>>,
     <<<<0,0,0,0,0,1>>, Prop("GameClass", "int", NoSize)>>,
     <<<<1,0,0,0,0,1>>, Prop("MessageOfTheDay", "str", NoSize)>>,
     <<<<0,1,0,0,0,1>>, Prop("RulesString", "str", NoSize)>>,
     <<<<0,0,1,0,0,1>>, PropChoice("FlagState", "bitarray", 10,
          <<<<<<0,0,0,0,0,0,0,0,0,0>>, "Enemy flag on stand">>, <<<<0,0,0,0,0,0,0,0,0,1>>, "Enemy flag taken">>, <<<<0,0,0,0,0,0,0,0,1,1>>, "Enemy flag dropped">>, <<<<1,0,0,0,0,0,0,0,0,0>>, "Own flag on stand">>, <<<<1,0,0,0,0,0,0,0,0,1>>, "Own flag taken">>, <<<<1,0,0,0,0,0,0,0,1,1>>, "Own flag dropped">>>>)>>,
     <<<<1,1,1,0,0,1>>, Prop("bAllowKeyboardAndMouse", "bool", NoSize)>>,
     <<<<0,1,0,1,0,1>>, Prop("bWarmupRound", "bool", NoSize)>>,
     <<<<0,0,1,1,0,1>>, Prop("MinNetPlayers", "int", NoSize)>>,
     <<<<1,0,1,1,1,1>>, Prop("r_nBlip", "bitarray", 8)>> >>

\* udk.py 511-543
TrFlagCTFProps ==
  << <<<<1,0,0,0,0>>, Prop("bCollideActors", "bool", NoSize)>>,
     <<<<1,1,0,0,0>>, Prop("bHardAttach", "bool", NoSize)>>,
     <<<<0,0,0,1,0>>, Prop("Physics", "bitarray", 4)>>,
     <<<<0,0,0,0,1>>, Prop("Location", "bitarray", 52)>>,
     <<<<1,0,0,0,1>>, Prop("RelativeLocation", "bitarray", 22)>>,
     <<<<1,1,0,0,1>>, Prop("Rotation", "bitarray", 11)>>,
     <<<<0,0,1,0,1>>, Prop("Velocity", "bitarray", 40)>>,
     <<<<1,0,1,1,1>>, Prop("Base", "bitarray", 10)>>,
     <<<<0,1,0,0,0>>, Prop("bCollideWorld", "bool", NoSize)>>,
     <<<<0,1,1,0,1>>, Prop("bHome", "bool", NoSize)>>,
     <<<<0,1,0,0,1>>, Prop("RelativeRotation", "bitarray", 27)>>,
     <<<<1,1,1,0,1>>, Prop("Team", "bitarray", 11)>>,
     <<<<0,0,0,1,1>>, Prop("HolderPRI", "bitarray", 11)>> >>

\* udk.py 545-585
TrPlayerReplicationInfoProps ==
  << <<<<0,0,0,0,0,0>>, Prop("netflags", "bitarray", 5)>>,
     <<<<0,0,0,0,1,0>>, Prop("Location", "bitarray", 51)>>,
     <<<<1,1,0,0,1,0>>, Prop("Rotation", "bitarray", 10)>>,
     <<<<1,0,1,0,1,0>>, Prop("UniqueId", "bitarray", 64)>>,
     <<<<0,1,1,0,1,0>>, Prop("Unknown field", "int", NoSize)>>,
     <<<<1,1,0,1,1,0>>, Prop("bWaitingPlayer", "bool", NoSize)>>,
     <<<<0,0,0,1,1,0>>, Prop("bBot", "bool", NoSize)>>,
     <<<<1,0,1,1,1,0>>, Prop("bIsSpectator", "bool", NoSize)>>,
     <<<<1,1,1,1,1,0>>, PropChoice("Team (11 bits)", "bitarray", 11,
          <<<<<<1,0,0,0,1,0,0,0,0,0,0>>, "DiamondSword">>, <<<<1,1,1,1,0,0,0,0,0,0,0>>, "BloodEagle">>>>)>>,
     <<<<0,0,0,0,0,1>>, Prop("PlayerID", "int", NoSize)>>,
     <<<<1,0,0,0,0,1>>, Prop("PlayerName", "str", NoSize)>>,
     <<<<1,1,0,0,0,1>>, Prop("Deaths", "int", NoSize)>>,
     <<<<0,0,1,0,0,1>>, Prop("Score", "int", NoSize)>>,
     <<<<0,1,1,0,0,1>>, Prop("CharClassInfo", "int", NoSize)>>,
     <<<<0,1,0,1,0,1>>, Prop("bHasFlag", "bool", NoSize)>>,
     <<<<1,0,1,1,0,1>>, Prop("r_bSkinId", "int", NoSize)>>,
     <<<<1,1,1,1,0,1>>, Prop("r_EquipLevels", "bitarray", 48)>>,
     <<<<0,0,0,0,1,1>>, Prop("r_VoiceClass", "int", NoSize)>>,
     <<<<0,0,1,0,1,1>>, Prop("m_nPlayerClassId", "int", NoSize)>>,
     <<<<1,0,1,0,1,1>>, Prop("m_nCreditsEarned", "int", NoSize)>>,
     <<<<0,0,0,1,1,1>>, Prop("m_nPlayerIconIndex", "int", NoSize)>>,
     <<<<0,0,1,1,1,1>>, Prop("m_PendingBaseClass", "int", NoSize)>>,
     <<<<1,0,1,1,1,1>>, Prop("m_CurrentBaseClass", "int", NoSize)>> >>

\* udk.py 587-592
TrServerSettingsInfoProps ==
  << >>

\* udk.py 594-598
FirstClientObjectProps ==
  << <<<<0,0,0,1,0,0>>, Prop("prop8", "bitarray", 162)>> >>

\* udk.py 600-622
FirstServerObjectProps ==
  << <<<<1,0,0,0,0,0,0,0>>, Prop("mysteryproperty3", "PropertyValueMystery3", NoSize)>>,
     <<<<1,1,0,0,0,0,0,0>>, PropTuple("mysteryproperty5",
          <<Member("unknown", "int", NoSize),
            Member("unknown2", "str", NoSize)>>)>>,
     <<<<0,0,1,0,0,0,0,0>>, PropTuple("mysteryproperty4",
          <<Member("unknown", "bitarray", 88),
            Member("server url", "str", NoSize)>>)>>,
     <<<<1,1,1,0,0,0,0,0>>, Prop("mysteryproperty1", "PropertyValueMystery1", NoSize)>>,
     <<<<1,1,0,1,0,0,0,0>>, Prop("mysteryproperty2", "PropertyValueMystery2", NoSize)>> >>

\* udk.py 655-669
MatineeActorProps ==
  << <<<<0,0,0,0,0>>, Prop("netflags", "bitarray", 6)>>,
     <<<<1,1,1,0,1>>, Prop("Position", "bitarray", 32)>>,
     <<<<0,0,0,1,1>>, Prop("PlayRate", "int", NoSize)>>,
     <<<<1,1,0,1,1>>, Prop("bIsPlaying", "bool", NoSize)>>,
     <<<<0,0,1,1,1>>, Prop("InterpAction", "bitarray", 32)>> >>

\* udk.py 671-682
UTTeamInfoFlags ==
  << <<<<0,0,0,0,0>>, Prop("netflags", "bitarray", 6)>>,
     <<<<1,0,1,0,1>>, Prop("TeamIndex", "int", NoSize)>>,
     <<<<0,0,0,1,1>>, Prop("TeamFlag", "bitarray", 11)>>,
     <<<<1,0,0,1,1>>, Prop("HomeBase", "int", NoSize)>> >>

\* udk.py 684-689
WorldInfo2Props ==
  << <<<<0,0,0,1,1>>, Prop("TimeDilation", "int", NoSize)>>,
     <<<<0,1,1,0,1>>, Prop("WorldGravityZ", "int", NoSize)>> >>

\* the property table a class descriptor refers to (its 'props' entry)
PropsTable(id) ==
  CASE id = "TrInventoryManagerProps" -> TrInventoryManagerProps
    [] id = "TrPlayerPawnProps" -> TrPlayerPawnProps
    [] id = "TrDeviceProps" -> TrDeviceProps
    [] id = "TrRadarStationProps" -> TrRadarStationProps
    [] id = "TrInventoryStationProps" -> TrInventoryStationProps
    [] id = "TrRepairStationProps" -> TrRepairStationProps
    [] id = "TrInventoryStationCollisionProps" -> TrInventoryStationCollisionProps
    [] id = "TrPowerGeneratorProps" -> TrPowerGeneratorProps
    [] id = "TrPlayerControllerProps" -> TrPlayerControllerProps
    [] id = "TrBaseTurretProps" -> TrBaseTurretProps
    [] id = "TrProj_BaseTurretProps" -> TrProj_BaseTurretProps
    [] id = "TrProj_SpinfusorProps" -> TrProj_SpinfusorProps
    [] id = "TrDroppedPickupProps" -> TrDroppedPickupProps
    [] id = "TrGameReplicationInfoProps" -> TrGameReplicationInfoProps
    [] id = "TrFlagCTFProps" -> TrFlagCTFProps
    [] id = "TrPlayerReplicationInfoProps" -> TrPlayerReplicationInfoProps
    [] id = "TrServerSettingsInfoProps" -> TrServerSettingsInfoProps
    [] id = "FirstClientObjectProps" -> FirstClientObjectProps
    [] id = "FirstServerObjectProps" -> FirstServerObjectProps
    [] id = "MatineeActorProps" -> MatineeActorProps
    [] id = "UTTeamInfoFlags" -> UTTeamInfoFlags
    [] id = "WorldInfo2Props" -> WorldInfo2Props
    [] OTHER -> << >>

\* udk.py 691-745
class_dict_entries ==
  << <<NoneKey,
       ClassDesc("FirstServerObject", "FirstServerObjectProps")>>,
     <<<<0,0,0,0,1,0,0,0,1,0,0,0,0,0,0,0,0,1,1,1,1,1,1,0,1,1,0,1,1,0,0,0>>,
       ClassDesc("FirstClientObject", "FirstClientObjectProps")>>,
     <<<<1,0,0,0,1,0,0,0,0,0,0,0,0,0,0,0,0,0,0,0,0,0,0,0,0,0,0,0,0,0,0,0>>,
       ClassDesc("FirstServerObject", "FirstServerObjectProps")>>,
     <<<<0,0,1,0,1,1,0,0,1,0,0,1,0,0,0,1,0,0,0,0,0,0,0,0,0,0,0,0,0,0,0,0>>,
       ClassDesc("MatineeActor", "MatineeActorProps")>>,
     <<<<0,0,0,1,1,1,0,0,0,0,1,1,0,0,1,0,0,1,0,0,0,0,0,0,0,0,0,0,0,0,0,0>>,
       ClassDesc("TrBaseTurret_BloodEagle", "TrBaseTurretProps")>>,
     <<<<0,0,1,1,1,1,0,0,0,0,1,1,0,0,1,0,0,1,0,0,0,0,0,0,0,0,0,0,0,0,0,0>>,
       ClassDesc("TrBaseTurret_DiamondSword", "TrBaseTurretProps")>>,
     <<<<0,1,0,1,0,1,1,1,0,0,0,1,0,1,0,1,1,1,1,0,0,0,0,0,0,0,0,0,0,0,0,0>>,
       ClassDesc("TrCTFBase_BloodEagle", "EmptyProps")>>,
     <<<<0,0,1,1,0,1,1,1,0,0,0,1,0,1,0,1,1,1,1,0,0,0,0,0,0,0,0,0,0,0,0,0>>,
       ClassDesc("TrCTFBase_DiamondSword", "EmptyProps")>>,
     <<<<0,1,1,1,1,0,0,0,1,0,0,1,1,0,0,1,0,1,0,0,0,0,0,0,0,0,0,0,0,0,0,0>>,
       ClassDesc("TrDevice_Blink", "TrDeviceProps")>>,
     <<<<0,1,0,0,0,0,1,1,1,0,0,1,1,0,0,1,0,1,0,0,0,0,0,0,0,0,0,0,0,0,0,0>>,
       ClassDesc("TrDevice_ConcussionGrenade", "TrDeviceProps")>>,
     <<<<0,1,1,0,0,1,0,1,1,1,0,1,1,0,0,1,0,1,0,0,0,0,0,0,0,0,0,0,0,0,0,0>>,
       ClassDesc("TrDevice_GrenadeLauncher_Light", "TrDeviceProps")>>,
     <<<<0,0,1,1,1,0,0,1,0,0,1,1,1,0,0,1,0,1,0,0,0,0,0,0,0,0,0,0,0,0,0,0>>,
       ClassDesc("TrDevice_Twinfusor", "TrDeviceProps")>>,
     <<<<0,1,0,0,1,0,0,0,1,0,1,1,1,0,0,1,0,1,0,0,0,0,0,0,0,0,0,0,0,0,0,0>>,
       ClassDesc("TrDevice_LaserTargeter", "TrDeviceProps")>>,
     <<<<0,1,1,0,1,1,0,0,1,0,1,1,1,0,0,1,0,1,0,0,0,0,0,0,0,0,0,0,0,0,0,0>>,
       ClassDesc("TrDevice_LightAssaultRifle", "TrDeviceProps")>>,
     <<<<0,1,1,1,1,1,0,0,1,0,1,1,1,0,0,1,0,1,0,0,0,0,0,0,0,0,0,0,0,0,0,0>>,
       ClassDesc("TrDevice_LightSpinfusor", "TrDeviceProps")>>,
     <<<<0,0,1,0,0,1,1,1,1,0,1,1,1,0,0,1,0,1,0,0,0,0,0,0,0,0,0,0,0,0,0,0>>,
       ClassDesc("TrDevice_Melee_DS", "TrDeviceProps")>>,
     <<<<0,1,0,1,1,0,0,1,0,0,0,0,0,1,0,1,0,1,0,0,0,0,0,0,0,0,0,0,0,0,0,0>>,
       ClassDesc("TrDevice_Spinfusor_100X", "TrDeviceProps")>>,
     <<<<0,1,0,1,1,0,0,0,1,0,0,0,0,1,0,1,0,1,0,0,0,0,0,0,0,0,0,0,0,0,0,0>>,
       ClassDesc("TrDevice_UtilityPack_Soldier", "TrDeviceProps")>>,
     <<<<0,1,1,1,0,1,0,1,1,1,0,1,1,0,0,1,0,1,0,0,0,0,0,0,0,0,0,0,0,0,0,0>>,
       ClassDesc("TrDevice_GrenadeXL", "TrDeviceProps")>>,
     <<<<0,1,0,0,1,0,1,1,0,0,1,0,0,1,0,1,0,1,0,0,0,0,0,0,0,0,0,0,0,0,0,0>>,
       ClassDesc("TrDroppedPickup", "TrDroppedPickupProps")>>,
     <<<<0,0,1,0,0,1,0,0,1,0,1,1,1,1,0,1,0,1,0,0,0,0,0,0,0,0,0,0,0,0,0,0>>,
       ClassDesc("TrFlagCTF_BloodEagle", "TrFlagCTFProps")>>,
     <<<<0,0,1,1,0,1,0,0,1,0,1,1,1,1,0,1,0,1,0,0,0,0,0,0,0,0,0,0,0,0,0,0>>,
       ClassDesc("TrFlagCTF_DiamondSword", "TrFlagCTFProps")>>,
     <<<<0,1,1,1,0,0,0,1,1,0,1,1,1,0,1,1,0,1,0,0,0,0,0,0,0,0,0,0,0,0,0,0>>,
       ClassDesc("TrGameReplicationInfo", "TrGameReplicationInfoProps")>>,
     <<<<0,1,1,0,1,1,0,1,0,1,0,1,0,0,0,0,1,1,0,0,0,0,0,0,0,0,0,0,0,0,0,0>>,
       ClassDesc("TrInventoryManager", "TrInventoryManagerProps")>>,
     <<<<0,1,0,1,0,0,0,0,1,0,0,1,0,1,0,1,1,1,1,0,0,0,0,0,0,0,0,0,0,0,0,0>>,
       ClassDesc("TrInventoryStation_BloodEagle0101?", "TrInventoryStationProps")>>,
     <<<<0,1,0,0,0,0,0,0,1,0,0,1,0,1,0,1,1,1,1,0,0,0,0,0,0,0,0,0,0,0,0,0>>,
       ClassDesc("TrInventoryStation_BloodEagle0100?", "TrInventoryStationProps")>>,
     <<<<0,1,1,0,0,0,0,0,1,0,0,1,0,1,0,1,1,1,1,0,0,0,0,0,0,0,0,0,0,0,0,0>>,
       ClassDesc("TrInventoryStation_BloodEagle0110?", "TrInventoryStationProps")>>,
     <<<<0,0,1,0,0,0,0,0,1,0,0,1,0,1,0,1,1,1,1,0,0,0,0,0,0,0,0,0,0,0,0,0>>,
       ClassDesc("TrInventoryStation_BloodEagle0010?", "TrInventoryStationProps")>>,
     <<<<0,1,0,0,1,0,0,0,1,0,0,1,0,1,0,1,1,1,1,0,0,0,0,0,0,0,0,0,0,0,0,0>>,
       ClassDesc("TrInventoryStation_DiamondSword", "TrInventoryStationProps")>>,
     <<<<0,1,0,0,1,0,1,1,1,1,0,1,0,0,0,0,1,1,0,0,0,0,0,0,0,0,0,0,0,0,0,0>>,
       ClassDesc("TrInventoryStationCollision", "TrInventoryStationCollisionProps")>>,
     <<<<0,0,1,1,0,0,0,1,0,1,0,0,0,0,0,1,0,1,0,0,0,0,0,0,0,0,0,0,0,0,0,0>>,
       ClassDesc("TrPlayerController", "TrPlayerControllerProps")>>,
     <<<<0,0,1,1,1,0,1,0,1,0,0,0,0,1,1,0,0,1,0,0,0,0,0,0,0,0,0,0,0,0,0,0>>,
       ClassDesc("TrPlayerPawn", "TrPlayerPawnProps")>>,
     <<<<0,0,0,0,0,1,1,0,1,0,1,1,1,1,0,0,1,1,0,0,0,0,0,0,0,0,0,0,0,0,0,0>>,
       ClassDesc("TrPlayerReplicationInfo", "TrPlayerReplicationInfoProps")>>,
     <<<<0,0,1,1,1,1,0,0,1,0,0,1,0,1,0,1,1,1,1,0,0,0,0,0,0,0,0,0,0,0,0,0>>,
       ClassDesc("TrPowerGenerator_BloodEagle", "TrPowerGeneratorProps")>>,
     <<<<0,1,1,1,1,1,0,0,1,0,0,1,0,1,0,1,1,1,1,0,0,0,0,0,0,0,0,0,0,0,0,0>>,
       ClassDesc("TrPowerGenerator_DiamondSword", "TrPowerGeneratorProps")>>,
     <<<<0,1,1,1,1,0,1,0,0,1,0,0,0,0,1,0,1,1,0,0,0,0,0,0,0,0,0,0,0,0,0,0>>,
       ClassDesc("TrProj_BaseTurret", "TrProj_BaseTurretProps")>>,
     <<<<0,0,1,0,1,0,1,0,1,1,1,0,0,0,1,0,1,1,0,0,0,0,0,0,0,0,0,0,0,0,0,0>>,
       ClassDesc("TrProj_Spinfusor_100X", "TrProj_SpinfusorProps")>>,
     <<<<0,1,1,1,0,0,1,0,1,0,0,0,1,0,1,0,1,1,0,0,0,0,0,0,0,0,0,0,0,0,0,0>>,
       ClassDesc("TrRadarStation_BloodEagle", "TrRadarStationProps")>>,
     <<<<0,1,0,0,1,0,1,0,1,0,0,0,1,0,1,0,1,1,0,0,0,0,0,0,0,0,0,0,0,0,0,0>>,
       ClassDesc("TrRadarStation_DiamondSword", "TrRadarStationProps")>>,
     <<<<0,0,0,0,0,0,0,0,1,1,0,0,1,0,1,0,1,1,0,0,0,0,0,0,0,0,0,0,0,0,0,0>>,
       ClassDesc("TrRepairStationCollision", "TrRepairStationProps")>>,
     <<<<0,0,0,1,0,0,1,1,1,0,0,0,0,1,1,0,1,1,0,0,0,0,0,0,0,0,0,0,0,0,0,0>>,
       ClassDesc("TrServerSettingsInfo", "TrServerSettingsInfoProps")>>,
     <<<<0,0,0,0,0,0,1,1,1,1,0,1,0,0,0,0,1,1,0,0,0,0,0,0,0,0,0,0,0,0,0,0>>,
       ClassDesc("TrStationCollision", "EmptyProps")>>,
     <<<<0,0,1,0,0,0,1,0,1,0,0,1,0,1,0,1,1,1,1,0,0,0,0,0,0,0,0,0,0,0,0,0>>,
       ClassDesc("TrRepairStation_BloodEagle0010?", "TrRepairStationProps")>>,
     <<<<0,1,0,1,0,0,1,0,1,0,0,1,0,1,0,1,1,1,1,0,0,0,0,0,0,0,0,0,0,0,0,0>>,
       ClassDesc("TrRepairStation_BloodEagle0101?", "TrRepairStationProps")>>,
     <<<<0,0,1,1,0,0,1,0,1,0,0,1,0,1,0,1,1,1,1,0,0,0,0,0,0,0,0,0,0,0,0,0>>,
       ClassDesc("TrRepairStation_BloodEagle0011?", "TrRepairStationProps")>>,
     <<<<0,1,1,0,0,0,1,0,1,0,0,1,0,1,0,1,1,1,1,0,0,0,0,0,0,0,0,0,0,0,0,0>>,
       ClassDesc("TrRepairStation_BloodEagle0110?", "TrRepairStationProps")>>,
     <<<<0,1,0,1,1,0,1,0,1,0,0,1,0,1,0,1,1,1,1,0,0,0,0,0,0,0,0,0,0,0,0,0>>,
       ClassDesc("TrRepairStation_DiamondSword", "TrRepairStationProps")>>,
     <<<<0,0,1,0,0,1,1,0,1,0,0,1,0,1,0,1,1,1,1,0,0,0,0,0,0,0,0,0,0,0,0,0>>,
       ClassDesc("TrVehicleStation_BloodEagle", "EmptyProps")>>,
     <<<<0,1,1,0,0,1,1,0,1,0,0,1,0,1,0,1,1,1,1,0,0,0,0,0,0,0,0,0,0,0,0,0>>,
       ClassDesc("TrVehicleStation_DiamondSword", "EmptyProps")>>,
     <<<<0,0,1,0,0,1,1,1,0,1,0,0,1,0,0,1,1,0,0,0,0,0,0,0,0,0,0,0,0,0,0,0>>,
       ClassDesc("UTTeamInfo", "UTTeamInfoFlags")>>,
     <<<<0,0,0,0,0,1,0,1,1,0,0,1,0,1,0,1,1,1,1,0,0,0,0,0,0,0,0,0,0,0,0,0>>,
       ClassDesc("WorldInfo1", "EmptyProps")>>,
     <<<<0,1,0,1,0,1,0,1,1,1,1,0,0,1,0,1,1,1,1,0,0,0,0,0,0,0,0,0,0,0,0,0>>,
       ClassDesc("WorldInfo2", "WorldInfo2Props")>> >>

\* The dict ParserState.__init__ builds
class_dict_init ==
  [k \in {class_dict_entries[i][1] : i \in 1..Len(class_dict_entries)} |->
     DictGet(class_dict_entries, k, None)]

ParserState ==
  [class_dict |-> class_dict_init,
   instance_count |-> << >>,
   channels |-> << >>]

\* ------------------------------------------------------- property values

NoValue == [kind |-> "None"]

PropertyValueMultipleChoice_frombitarray(bits, size, values) ==
  Bind(getnbits(size, bits), LAMBDA r :
    IF r.exc # NoExc
    THEN [exc |-> r.exc, bits |-> bits,
          value |-> [kind |-> "MultipleChoice", value |-> None, valuebits |-> None]]
    ELSE [exc |-> NoExc, bits |-> r.bits,
          value |-> [kind |-> "MultipleChoice",
                     value |-> Some(DictGet(values, r.got, "Unknown")),
                     valuebits |-> Some(r.got)]])

\* lines 851-862: the string after its size field has been read as 'size'
string_value(size, bits) ==
  IF size > 0
  THEN Bind(getstring(bits), LAMBDA g :
         IF Len(g.value) + 1 # size
         THEN [exc |-> ParseError("ERROR: string size (" \o ToString(Len(g.value) + 1)
                                    \o ") was not equal to expected size ("
                                    \o ToString(size) \o ")", g.bits),
               bits |-> g.bits, value |-> NoValue]
         ELSE [exc |-> NoExc, bits |-> g.bits,
               value |-> [kind |-> "String", size |-> size, value |-> g.value]])
  ELSE [exc |-> NoExc, bits |-> bits,
        value |-> [kind |-> "String", size |-> size, value |-> << >>]]

PropertyValueString_frombitarray(bits) ==
  Bind(getnbits(32, bits), LAMBDA r :
    IF r.exc # NoExc THEN [exc |-> r.exc, bits |-> bits, value |-> NoValue]
    ELSE string_value(toint(r.got), r.bits))

PropertyValueInt_frombitarray(bits) ==
  Bind(getnbits(32, bits), LAMBDA r :
    IF r.exc # NoExc THEN [exc |-> r.exc, bits |-> bits, value |-> NoValue]
    ELSE [exc |-> NoExc, bits |-> r.bits,
          value |-> [kind |-> "Int", value |-> toint(r.got)]])

PropertyValueFloat_frombitarray(bits) ==
  Bind(getnbits(32, bits), LAMBDA r :
    IF r.exc # NoExc THEN [exc |-> r.exc, bits |-> bits, value |-> NoValue]
    ELSE [exc |-> NoExc, bits |-> r.bits,
          value |-> [kind |-> "Float", value |-> tofloat(r.got)]])

PropertyValueBool_frombitarray(bits) ==
  Bind(getnbits(1, bits), LAMBDA r :
    IF r.exc # NoExc THEN [exc |-> r.exc, bits |-> bits, value |-> NoValue]
    ELSE [exc |-> NoExc, bits |-> r.bits,
          value |-> [kind |-> "Bool", value |-> (r.got[1] = 1)]])

PropertyValueFlag_frombitarray(bits) ==
  [exc |-> NoExc, bits |-> bits, value |-> [kind |-> "Flag"]]

\* PropertyValueBitarray(): value is None until frombitarray has read it
PropertyValueBitarray == [kind |-> "Bitarray", value |-> None]

PropertyValueBitarray_frombitarray(bits, size) ==
  IF size = NoSize
  THEN [exc |-> TypeError("'>' not supported between instances of 'NoneType' and 'int'"),
        bits |-> bits, value |-> NoValue]
  ELSE Bind(getnbits(size, bits), LAMBDA r :
         IF r.exc # NoExc THEN [exc |-> r.exc, bits |-> bits, value |-> NoValue]
         ELSE [exc |-> NoExc, bits |-> r.bits,
               value |-> [kind |-> "Bitarray", value |-> Some(r.got)]])

\* the member codecs of the three fixed composites, in the order they are read
Mystery1Fields == <<"int", "int", "int", "int", "str", "str", "int", "int", "str">>

Mystery2Fields == <<"str", "str", "str">>

Mystery3Fields == <<"str", "str">>

RECURSIVE mystery_fields(_, _, _)
mystery_fields(fields, bits, acc) ==
  IF fields = << >> THEN [exc |-> NoExc, bits |-> bits, values |-> acc]
  ELSE Bind(IF Head(fields) = "int" THEN PropertyValueInt_frombitarray(bits)
            ELSE PropertyValueString_frombitarray(bits), LAMBDA r :
         IF r.exc # NoExc THEN [exc |-> r.exc, bits |-> r.bits, values |-> acc]
         ELSE mystery_fields(Tail(fields), r.bits, Append(acc, r.value)))

PropertyValueMystery_frombitarray(kind, fields, bits) ==
  Bind(mystery_fields(fields, bits, << >>), LAMBDA r :
    IF r.exc # NoExc THEN [exc |-> r.exc, bits |-> bits, value |-> NoValue]
    ELSE [exc |-> NoExc, bits |-> r.bits, value |-> [kind |-> kind, fields |-> r.values]])

parse_basic_property(propertyname, propertytype, bits, size) ==
  CASE propertytype = "str" -> PropertyValueString_frombitarray(bits)
    [] propertytype = "int" -> PropertyValueInt_frombitarray(bits)
    [] propertytype = "float" -> PropertyValueFloat_frombitarray(bits)
    [] propertytype = "bool" -> PropertyValueBool_frombitarray(bits)
    [] propertytype = "flag" -> PropertyValueFlag_frombitarray(bits)
    [] propertytype = "bitarray" -> PropertyValueBitarray_frombitarray(bits, size)
    [] propertytype = "PropertyValueMystery1" ->
         PropertyValueMystery_frombitarray("Mystery1", Mystery1Fields, bits)
    [] propertytype = "PropertyValueMystery2" ->
         PropertyValueMystery_frombitarray("Mystery2", Mystery2Fields, bits)
    [] propertytype = "PropertyValueMystery3" ->
         PropertyValueMystery_frombitarray("Mystery3", Mystery3Fields, bits)
    [] OTHER -> [exc |-> RuntimeError("Coding error: propertytype of property "
                                        \o propertyname \o " has invalid value: "
                                        \o propertytype),
                 bits |-> bits, value |-> NoValue]

\* PropertyValueStruct.frombitarray: the members read so far stay in self.values
RECURSIVE struct_members(_, _, _)
struct_members(member_list, bits, values) ==
  IF member_list = << >> THEN [exc |-> NoExc, bits |-> bits, values |-> values]
  ELSE Bind(parse_basic_property(Head(member_list).name, Head(member_list).type, bits,
                                 Head(member_list).size), LAMBDA r :
         IF r.exc # NoExc THEN [exc |-> r.exc, bits |-> bits, values |-> values]
         ELSE struct_members(Tail(member_list), r.bits, Append(values, r.value)))

PropertyValueStruct_frombitarray(member_list, bits) ==
  Bind(struct_members(member_list, bits, << >>), LAMBDA r :
    [exc |-> r.exc, bits |-> r.bits,
     value |-> [kind |-> "Struct", values |-> r.values]])

\* lines 1211-1218: a member after its presence bit has been read as 'present'
RECURSIVE params_members(_, _, _, _)
RECURSIVE params_member(_, _, _, _, _)
params_member(param_list, present, bits, presence, values) ==
  IF present
  THEN Bind(parse_basic_property(Head(param_list).name, Head(param_list).type, bits,
                                 Head(param_list).size), LAMBDA r :
         IF r.exc # NoExc
         THEN [exc |-> r.exc, bits |-> bits,
               presence |-> Append(presence, 1), values |-> values]
         ELSE params_members(Tail(param_list), r.bits,
                             Append(presence, 1), Append(values, r.value)))
  ELSE params_members(Tail(param_list), bits,
                      Append(presence, 0), Append(values, NoValue))

\* PropertyValueParams.frombitarray: presence gets its bit before the value is read
params_members(param_list, bits, presence, values) ==
  IF param_list = << >>
  THEN [exc |-> NoExc, bits |-> bits, presence |-> presence, values |-> values]
  ELSE Bind(getnbits(1, bits), LAMBDA p :
         IF p.exc # NoExc
         THEN [exc |-> p.exc, bits |-> bits, presence |-> presence, values |-> values]
         ELSE params_member(param_list, p.got[1] = 1, p.bits, presence, values))

PropertyValueParams_frombitarray(param_list, bits) ==
  Bind(params_members(param_list, bits, << >>, << >>), LAMBDA r :
    [exc |-> r.exc, bits |-> r.bits,
     value |-> [kind |-> "Params", presence |-> r.presence, values |-> r.values]])

RECURSIVE frombytes(_)
\* bitarray.frombytes on a little-endian bitarray: each byte, lowest bit first
frombytes(codes) ==
  IF codes = << >> THEN << >> ELSE int2bits(Head(codes), 8) \o frombytes(Tail(codes))

PropertyValueString_tobitarray(v) ==
  int2bitarray(v.size, 32)
    \o (IF v.size > 0 THEN frombytes(v.value) \o <<0, 0, 0, 0, 0, 0, 0, 0>> ELSE << >>)

RECURSIVE value_tobitarray(_)
RECURSIVE concat_tobitarray(_)
RECURSIVE params_tobitarray(_, _)

\* PropertyValueParams.tobitarray that writes the presence bit of a member
\* only with its value
RECURSIVE params_tobitarray_with_value(_, _)
params_tobitarray_with_value(presence, values) ==
  IF presence = << >> /\ values = << >> THEN << >>
  ELSE LET present == IF presence = << >> THEN 0 ELSE Head(presence)
           value == IF values = << >> THEN NoValue ELSE Head(values)
           rest == params_tobitarray_with_value(
                     IF presence = << >> THEN << >> ELSE Tail(presence),
                     IF values = << >> THEN << >> ELSE Tail(values))
       IN IF present = 1
          THEN (IF value.kind # "None" THEN <<1>> \o value_tobitarray(value) ELSE << >>)
                 \o rest
          ELSE <<0>> \o rest

\* PropertyValueParams.tobitarray: zip_longest(self.presence, self.values)
params_tobitarray(presence, values) ==
  IF presence = << >> /\ values = << >> THEN << >>
  ELSE LET present == IF presence = << >> THEN 0 ELSE Head(presence)
           value == IF values = << >> THEN NoValue ELSE Head(values)
           rest == params_tobitarray(IF presence = << >> THEN << >> ELSE Tail(presence),
                                     IF values = << >> THEN << >> ELSE Tail(values))
       IN IF present = 1
          THEN <<1>> \o (IF value.kind # "None" THEN value_tobitarray(value) ELSE << >>) \o rest
          ELSE <<0>> \o rest

\* the sum of member.tobitarray() over a list of values
concat_tobitarray(values) ==
  IF values = << >> THEN << >>
  ELSE value_tobitarray(Head(values)) \o concat_tobitarray(Tail(values))

\* value.tobitarray(), by the class of the value
value_tobitarray(v) ==
  CASE v.kind = "MultipleChoice" -> IF v.value # None THEN v.valuebits[1] ELSE << >>
    [] v.kind = "String" -> PropertyValueString_tobitarray(v)
    [] v.kind = "Int" -> int2bitarray(v.value, 32)
    [] v.kind = "Float" -> float2bitarray(v.value)
    [] v.kind = "Bool" -> IF v.value THEN <<1>> ELSE <<0>>
    [] v.kind = "Flag" -> << >>
    [] v.kind = "Bitarray" -> IF v.value # None THEN v.value[1] ELSE << >>
    [] v.kind \in {"Mystery1", "Mystery2", "Mystery3"} -> concat_tobitarray(v.fields)
    [] v.kind = "Struct" -> concat_tobitarray(v.values)
    [] v.kind = "Params" -> params_tobitarray(v.presence, v.values)

\* ------------------------------------------------------------ object codec

\* ObjectProperty(id_size)
ObjectProperty(id_size) ==
  [propertyid_size |-> id_size, propertyid |-> None, property_ |-> "Unknown", value |-> None]

\* lines 1266-1288: the value of a property whose table entry is property_
property_value(self, propertykey, property_, bits, class_) ==
  IF property_.values # << >>
  THEN Bind(PropertyValueMultipleChoice_frombitarray(bits, property_.size, property_.values),
            LAMBDA mc :
         [exc |-> mc.exc, bits |-> mc.bits, obj |-> [self EXCEPT !.value = Some(mc.value)]])
  ELSE IF property_.type = "list" /\ property_.members # << >>
  THEN Bind(PropertyValueParams_frombitarray(property_.members, bits), LAMBDA pa :
         [exc |-> pa.exc, bits |-> pa.bits, obj |-> [self EXCEPT !.value = Some(pa.value)]])
  ELSE IF property_.type = "tuple" /\ property_.members # << >>
  THEN Bind(PropertyValueStruct_frombitarray(property_.members, bits), LAMBDA st :
         [exc |-> st.exc, bits |-> st.bits, obj |-> [self EXCEPT !.value = Some(st.value)]])
  ELSE IF property_.type \notin {"None", "list", "tuple"}
  THEN Bind(parse_basic_property(property_.name, property_.type, bits, property_.size),
            LAMBDA ba :
         IF ba.exc # NoExc
         THEN [exc |-> ba.exc, bits |-> bits,
               obj |-> [self EXCEPT !.value = Some(PropertyValueBitarray)]]
         ELSE [exc |-> NoExc, bits |-> ba.bits,
               obj |-> [self EXCEPT !.value = Some(ba.value)]])
  ELSE [exc |-> ParseError("Unknown property " \o to01(propertykey)
                             \o " for class " \o class_.name, bits),
        bits |-> bits, obj |-> self]

\* lines 1259-1260: the table entry of the property key just read
property_of_key(self, i, property_, class_) ==
  property_value([self EXCEPT !.propertyid = Some(toint(i.got)),
                              !.property_ = property_.name],
                 i.got, property_, i.bits, class_)

ObjectProperty_frombitarray(self, bits0, class_) ==
  Bind(getnbits(self.propertyid_size, bits0), LAMBDA i :
    IF i.exc # NoExc THEN [exc |-> i.exc, bits |-> bits0, obj |-> self]
    ELSE property_of_key(self, i,
                         DictGet(PropsTable(class_.props), i.got,
                                 Prop("Unknown", "None", NoSize)),
                         class_))

ObjectProperty_tobitarray(self) ==
  (IF self.propertyid # None THEN int2bitarray(self.propertyid[1], self.propertyid_size)
   ELSE << >>)
    \o (IF self.value # None THEN value_tobitarray(self.value[1]) ELSE << >>)

\* ObjectInstance.frombitarray: a property joins self.properties before it is read
RECURSIVE instance_properties(_, _, _)
instance_properties(bits, class_, properties) ==
  IF bits = << >> THEN [exc |-> NoExc, bits |-> bits, properties |-> properties]
  ELSE Bind(ObjectProperty_frombitarray(ObjectProperty(class_.idsize), bits, class_),
            LAMBDA r :
         IF r.exc # NoExc
         THEN [exc |-> r.exc, bits |-> r.bits, properties |-> Append(properties, r.obj)]
         ELSE instance_properties(r.bits, class_, Append(properties, r.obj)))

ObjectInstance(is_rpc) == [properties |-> << >>, is_rpc |-> is_rpc]

ObjectInstance_frombitarray(self, bits, class_) ==
  Bind(instance_properties(bits, class_, self.properties), LAMBDA r :
    [exc |-> r.exc, bits |-> r.bits, obj |-> [self EXCEPT !.properties = r.properties]])

RECURSIVE properties_tobitarray(_)
properties_tobitarray(properties) ==
  IF properties = << >> THEN << >>
  ELSE ObjectProperty_tobitarray(Head(properties)) \o properties_tobitarray(Tail(properties))

ObjectInstance_tobitarray(self) == properties_tobitarray(self.properties)

\* a parser that looks a class up by the 32 bits as they were read: C14 tells
\* it from the code
getclasskey_as_read(classid) == int2bitarray(classid, 32)

\* ObjectClass.getclasskey
getclasskey(classid) ==
  LET classbits == int2bitarray(classid, 32)
  IN IF SubSeq(classbits, 1, 5) = <<1, 0, 0, 0, 1>>
     THEN [i \in 1..32 |-> IF i <= 5 THEN classbits[i] ELSE 0]
     ELSE classbits

ObjectClass == [classid |-> None]

\* a parser that gives every class it does not know the one name unknown: C15
\* tells it from the code
class_of_id_unnumbered(self, classid, classkey, bits, state) ==
  [exc |-> NoExc, bits |-> bits,
   obj |-> [self EXCEPT !.classid = Some(classid)],
   state |-> IF classkey \notin DOMAIN state.class_dict
             THEN [state EXCEPT !.class_dict =
                     (classkey :> ClassDesc("unknown", "EmptyProps")) @@ @]
             ELSE state]

\* lines 1349-1355: the class, once its id has been read
class_of_id(self, classid, classkey, bits, state) ==
  [exc |-> NoExc, bits |-> bits,
   obj |-> [self EXCEPT !.classid = Some(classid)],
   state |-> IF classkey \notin DOMAIN state.class_dict
             THEN [state EXCEPT !.class_dict =
                     (classkey :> ClassDesc("unknown"
                                              \o ToString(Cardinality(DOMAIN state.class_dict)),
                                            "EmptyProps")) @@ @]
             ELSE state]

ObjectClass_frombitarray(self, bits, state) ==
  Bind(getnbits(32, bits), LAMBDA r :
    IF r.exc # NoExc THEN [exc |-> r.exc, bits |-> bits, obj |-> self, state |-> state]
    ELSE class_of_id(self, toint(r.got), getclasskey(toint(r.got)), r.bits, state))

ObjectClass_tobitarray(self) ==
  IF self.classid # None THEN int2bitarray(self.classid[1], 32) ELSE << >>

\* ----------------------------------------------------------- payload codec

PayloadData(reliable) ==
  [reliable |-> reliable, size |-> None, nr_of_payload_bits |-> None,
   object_class |-> None, object_deleted |-> FALSE, instancename |-> None,
   instance |-> None, bitsleftreason |-> None, bitsleft |-> None]

\* a parser for which every channel is new: C2 tells it from the code
channel_always_new(channel, state) == TRUE

\* line 1391: channel not in state.channels
channel_is_new(channel, state) == channel \notin DOMAIN state.channels

\* a parser that looks the class up by the prefix on channel 0 too: C4 tells
\* it from the code
class_lookup_key_of_prefix(object_class, channel) == getclasskey(object_class.classid[1])

\* line 1396: the key of the class table entry an introduced object gets
class_lookup_key(object_class, channel) ==
  IF channel # 0 THEN getclasskey(object_class.classid[1]) ELSE NoneKey

\* a parser that numbers the instances of a class from 1: C6 tells it from
\* the code
instance_number_from_one(instance_count, classname) ==
  (IF classname \in DOMAIN instance_count THEN instance_count[classname] ELSE 0) + 1

\* line 1402: state.instance_count.get(classname, -1) + 1
instance_number(instance_count, classname) ==
  (IF classname \in DOMAIN instance_count THEN instance_count[classname] ELSE -1) + 1

\* a parser that names an instance by its class alone: C5 tells it from the
\* code
instance_name_without_number(classname, number) == classname

\* line 1403: '%s_%d' % (classname, state.instance_count[classname])
instance_name(classname, number) == classname \o "_" \o ToString(number)

\* a parser that keeps the binding of a destroyed object: C3 tells it from
\* the code
del_channel_kept(channels, channel) == channels

\* line 1421: del state.channels[channel]
del_channel(channels, channel) == [c \in DOMAIN channels \ {channel} |-> channels[c]]

\* lines 1414-1425: what the try block and its except clause make of the
\* instance r read from the payload
instance_outcome(self, r, channel, state) ==
  IF r.exc # NoExc
  THEN IF r.exc[1].type = "ParseError"
       THEN [exc |-> NoExc, state |-> state,
             obj |-> [self EXCEPT !.bitsleftreason = Some(r.exc[1].message),
                                  !.bitsleft = Some(r.exc[1].bitsleft)]]
       ELSE [exc |-> r.exc, state |-> state, obj |-> self]
  ELSE IF r.bits # << >>
  THEN [exc |-> NoExc, state |-> state,
        obj |-> [self EXCEPT !.bitsleftreason = Some("Bits of payload left over"),
                             !.bitsleft = Some(r.bits)]]
  ELSE IF self.size[1] = 0
  THEN [exc |-> NoExc,
        state |-> [state EXCEPT !.channels = del_channel(@, channel)],
        obj |-> [self EXCEPT !.object_deleted = TRUE]]
  ELSE [exc |-> NoExc, state |-> state, obj |-> self]

\* lines 1407-1413: the instance bound to the channel reads the payload
payload_instance(self, payloadbits, channel, newinstance, state) ==
  Bind(ObjectInstance_frombitarray(ObjectInstance(self.reliable /\ ~newinstance),
                                   payloadbits,
                                   state.class_dict[state.channels[channel].class]),
       LAMBDA r :
    instance_outcome([self EXCEPT !.instancename =
                                    Some(state.channels[channel].instancename),
                                  !.instance = Some(r.obj)],
                     r, channel, state))

\* an id size that is 6 whatever the keys of the table are
idsize_of_default(prop_keys) == 6

\* lines 1399-1400: len(prop_keys[0]) if prop_keys else 6
idsize_of(prop_keys) == IF prop_keys # << >> THEN Len(prop_keys[1][1]) ELSE 6

\* a parser that does not keep the number it gave an instance: C31 tells it
\* from the code
bind_channel_uncounted(state, channel, key, classname, count, idsize) ==
  [class_dict |-> [state.class_dict EXCEPT ![key].idsize = idsize],
   instance_count |-> state.instance_count,
   channels |-> (channel :> [class |-> key,
                             instancename |-> instance_name(classname, count)])
                  @@ state.channels]

\* lines 1400-1405: the class gets its idsize, the instance its number and
\* name, the channel its binding
bind_channel(state, channel, key, classname, count, idsize) ==
  [class_dict |-> [state.class_dict EXCEPT ![key].idsize = idsize],
   instance_count |-> (classname :> count) @@ state.instance_count,
   channels |-> (channel :> [class |-> key,
                             instancename |-> instance_name(classname, count)])
                  @@ state.channels]

\* lines 1396-1405: the parser state once the object of class key is introduced
introduce(state, channel, key) ==
  bind_channel(state, channel, key, state.class_dict[key].name,
               instance_number(state.instance_count, state.class_dict[key].name),
               idsize_of(PropsTable(state.class_dict[key].props)))

\* a parser that keeps no bits of a body that is too short for a class key:
\* C32 tells it from the code
payload_body_dropping(self, payloadbits, channel, state) ==
  IF channel_is_new(channel, state)
  THEN Bind(ObjectClass_frombitarray(ObjectClass, payloadbits, state), LAMBDA c :
         IF c.exc # NoExc
         THEN [exc |-> NoExc, state |-> state,
               obj |-> [self EXCEPT !.object_class = Some(c.obj),
                                    !.bitsleftreason = Some(c.exc[1].message),
                                    !.bitsleft = Some(<< >>)]]
         ELSE payload_instance([self EXCEPT !.object_class = Some(c.obj)], c.bits,
                               channel, TRUE,
                               introduce(c.state, channel,
                                         class_lookup_key(c.obj, channel))))
  ELSE payload_instance(self, payloadbits, channel, FALSE, state)

\* lines 1390-1425, the try block of PayloadData.frombitarray
payload_body(self, payloadbits, channel, state) ==
  IF channel_is_new(channel, state)
  THEN Bind(ObjectClass_frombitarray(ObjectClass, payloadbits, state), LAMBDA c :
         IF c.exc # NoExc
         THEN [exc |-> NoExc, state |-> state,
               obj |-> [self EXCEPT !.object_class = Some(c.obj),
                                    !.bitsleftreason = Some(c.exc[1].message),
                                    !.bitsleft = Some(c.exc[1].bitsleft)]]
         ELSE payload_instance([self EXCEPT !.object_class = Some(c.obj)], c.bits,
                               channel, TRUE,
                               introduce(c.state, channel,
                                         class_lookup_key(c.obj, channel))))
  ELSE payload_instance(self, payloadbits, channel, FALSE, state)

\* lines 1384-1427: the payload, once its size field has been read
payload_of_size(self, bits, channel, state) ==
  Bind(getnbits(self.size[1], bits), LAMBDA b :
    IF b.exc # NoExc THEN [exc |-> b.exc, bits |-> bits, obj |-> self, state |-> state]
    ELSE Bind(payload_body(self, b.got, channel, state), LAMBDA r :
           [exc |-> r.exc, bits |-> b.bits, obj |-> r.obj, state |-> r.state]))

\* a parser that takes the size from the bits after the first: C13 tells it
\* from the code
payload_size_read_upper(self, payloadsizebits, bits, channel, state) ==
  payload_of_size([self EXCEPT !.nr_of_payload_bits = Some(Len(payloadsizebits)),
                               !.size = Some(toint(Tail(payloadsizebits)))],
                  bits, channel, state)

\* lines 1380-1385: the size field, 13 bits wide if its bits 10 and 13 are set
payload_size_read(self, payloadsizebits, bits, channel, state) ==
  payload_of_size([self EXCEPT !.nr_of_payload_bits = Some(Len(payloadsizebits)),
                               !.size = Some(toint(payloadsizebits))],
                  bits, channel, state)

PayloadData_frombitarray(self, bits0, channel, state) ==
  Bind(getnbits(14, bits0), LAMBDA s :
    IF s.exc # NoExc THEN [exc |-> s.exc, bits |-> bits0, obj |-> self, state |-> state]
    ELSE payload_size_read(self,
                           IF s.got[11] = 1 /\ s.got[14] = 1
                           THEN SubSeq(s.got, 1, 13) ELSE s.got,
                           IF s.got[11] = 1 /\ s.got[14] = 1
                           THEN <<1>> \o s.bits ELSE s.bits,
                           channel, state))

PayloadData_tobitarray(self) ==
  (IF self.size # None THEN int2bitarray(self.size[1], self.nr_of_payload_bits[1]) ELSE << >>)
    \o (IF self.object_class # None THEN ObjectClass_tobitarray(self.object_class[1]) ELSE << >>)
    \o (IF self.instance # None THEN ObjectInstance_tobitarray(self.instance[1]) ELSE << >>)
    \o (IF self.bitsleft # None THEN self.bitsleft[1] ELSE << >>)

\* ----------------------------------------------------------- channel codec

ChannelData == [channel |-> None, counter |-> None, unknownbits |-> None, payload |-> None]

\* lines 1487-1491: the counter and the eight bits after it
channel_counter(self, bits) ==
  Bind(getnbits(5, bits), LAMBDA n :
    IF n.exc # NoExc THEN [exc |-> n.exc, bits |-> bits, obj |-> self]
    ELSE Bind(getnbits(8, n.bits), LAMBDA u :
           IF u.exc # NoExc
           THEN [exc |-> u.exc, bits |-> n.bits,
                 obj |-> [self EXCEPT !.counter = Some(toint(n.got))]]
           ELSE [exc |-> NoExc, bits |-> u.bits,
                 obj |-> [self EXCEPT !.counter = Some(toint(n.got)),
                                      !.unknownbits = Some(u.got)]]))

\* the fields before the payload with the counter and the eight bits read for
\* every frame
channel_header_with_counter(self, bits0, with_counter) ==
  Bind(getnbits(10, bits0), LAMBDA c :
    IF c.exc # NoExc THEN [exc |-> c.exc, bits |-> bits0, obj |-> self]
    ELSE channel_counter([self EXCEPT !.channel = Some(toint(c.got))], c.bits))

\* lines 1484-1491: the fields before the payload
channel_header(self, bits0, with_counter) ==
  Bind(getnbits(10, bits0), LAMBDA c :
    IF c.exc # NoExc THEN [exc |-> c.exc, bits |-> bits0, obj |-> self]
    ELSE IF with_counter
    THEN channel_counter([self EXCEPT !.channel = Some(toint(c.got))], c.bits)
    ELSE [exc |-> NoExc, bits |-> c.bits,
          obj |-> [self EXCEPT !.channel = Some(toint(c.got))]])

ChannelData_frombitarray(self, bits0, with_counter, state) ==
  Bind(channel_header(self, bits0, with_counter), LAMBDA h :
    IF h.exc # NoExc THEN [exc |-> h.exc, bits |-> h.bits, obj |-> h.obj, state |-> state]
    ELSE Bind(PayloadData_frombitarray(PayloadData(with_counter), h.bits,
                                       h.obj.channel[1], state), LAMBDA p :
           [exc |-> p.exc, bits |-> p.bits, state |-> p.state,
            obj |-> [h.obj EXCEPT !.payload = Some(p.obj)]]))

ChannelData_tobitarray(self) ==
  int2bitarray(self.channel[1], 10)
    \o (IF self.counter # None
        THEN int2bitarray(self.counter[1], 5) \o self.unknownbits[1] ELSE << >>)
    \o PayloadData_tobitarray(self.payload[1])

\* ------------------------------------------------------------ packet codec

PacketData ==
  [isa |-> "PacketData", flag1a |-> None, unknownbits11 |-> None,
   unknownbits10 |-> None, channel_data |-> None]

\* lines 1530-1534: flag1a, read again after the escape 11
flag1a_read(self, bits0) ==
  Bind(getnbits(2, bits0), LAMBDA f1 :
    IF f1.exc # NoExc THEN [exc |-> f1.exc, bits |-> bits0, obj |-> self]
    ELSE IF f1.got = <<1, 1>>
    THEN Bind(getnbits(2, f1.bits), LAMBDA f2 :
           IF f2.exc # NoExc
           THEN [exc |-> f2.exc, bits |-> f1.bits,
                 obj |-> [self EXCEPT !.unknownbits11 = Some(TRUE)]]
           ELSE [exc |-> NoExc, bits |-> f2.bits,
                 obj |-> [self EXCEPT !.unknownbits11 = Some(TRUE),
                                      !.flag1a = Some(f2.got)]])
    ELSE [exc |-> NoExc, bits |-> f1.bits, obj |-> [self EXCEPT !.flag1a = Some(f1.got)]])

\* lines 1536-1551: what flag1a says about the channel data that follows
flag1a_branch(self, bits) ==
  IF self.flag1a[1] = <<1, 0>>
  THEN Bind(getnbits(2, bits), LAMBDA u :
         IF u.exc # NoExc THEN [exc |-> u.exc, bits |-> bits, obj |-> self]
         ELSE IF u.got # <<1, 1>>
         THEN [exc |-> ParseError("Unexpected value for unknownbits10: " \o to01(u.got),
                                  u.bits),
               bits |-> u.bits, obj |-> [self EXCEPT !.unknownbits10 = Some(u.got)]]
         ELSE [exc |-> NoExc, bits |-> u.bits,
               obj |-> [self EXCEPT !.unknownbits10 = Some(u.got)]])
  ELSE IF self.flag1a[1] = <<1, 1>>
  THEN [exc |-> ParseError("Unexpected value for flag1a: " \o to01(self.flag1a[1]), bits),
        bits |-> bits, obj |-> self]
  ELSE [exc |-> NoExc, bits |-> bits, obj |-> self]

\* lines 1530-1551: the fields before the channel data
packet_data_header(self, bits0) ==
  Bind(flag1a_read(self, bits0), LAMBDA f :
    IF f.exc # NoExc THEN f ELSE flag1a_branch(f.obj, f.bits))

\* PacketData.frombitarray that forgets the channels when the fields before
\* the channel data are rejected
PacketData_frombitarray_closing(self, bits0, state) ==
  Bind(packet_data_header(self, bits0), LAMBDA h :
    IF h.exc # NoExc
    THEN [exc |-> h.exc, bits |-> h.bits, obj |-> h.obj,
          state |-> [state EXCEPT !.channels = << >>]]
    ELSE Bind(ChannelData_frombitarray(ChannelData, h.bits,
                                       h.obj.flag1a[1] # <<0, 0>>, state), LAMBDA c :
           [exc |-> c.exc, bits |-> c.bits, state |-> c.state,
            obj |-> [h.obj EXCEPT !.channel_data = Some(c.obj)]]))

PacketData_frombitarray(self, bits0, state) ==
  Bind(packet_data_header(self, bits0), LAMBDA h :
    IF h.exc # NoExc THEN [exc |-> h.exc, bits |-> h.bits, obj |-> h.obj, state |-> state]
    ELSE Bind(ChannelData_frombitarray(ChannelData, h.bits,
                                       h.obj.flag1a[1] # <<0, 0>>, state), LAMBDA c :
           [exc |-> c.exc, bits |-> c.bits, state |-> c.state,
            obj |-> [h.obj EXCEPT !.channel_data = Some(c.obj)]]))

PacketData_tobitarray(self) ==
  (IF self.unknownbits11 # None THEN <<1, 1>> ELSE << >>)
    \o (IF self.flag1a # None THEN self.flag1a[1] ELSE << >>)
    \o (IF self.unknownbits10 # None THEN self.unknownbits10[1] ELSE << >>)
    \o (IF self.channel_data # None THEN ChannelData_tobitarray(self.channel_data[1])
        ELSE << >>)

PacketAck == [isa |-> "PacketAck", acknr |-> None]

\* PacketAck.frombitarray with the ack number taken from the last 13 of the
\* 14 bits
PacketAck_frombitarray_shifted(self, bits) ==
  Bind(getnbits(14, bits), LAMBDA r :
    IF r.exc # NoExc THEN [exc |-> r.exc, bits |-> bits, obj |-> self]
    ELSE [exc |-> NoExc, bits |-> r.bits,
          obj |-> [self EXCEPT !.acknr = Some(toint(Tail(r.got)))]])

PacketAck_frombitarray(self, bits) ==
  Bind(getnbits(14, bits), LAMBDA r :
    IF r.exc # NoExc THEN [exc |-> r.exc, bits |-> bits, obj |-> self]
    ELSE [exc |-> NoExc, bits |-> r.bits,
          obj |-> [self EXCEPT !.acknr = Some(toint(r.got))]])

PacketAck_tobitarray(self) == int2bitarray(self.acknr[1], 14)

Packet == [seqnr |-> None, parts |-> << >>, paddingbits |-> None]

RECURSIVE parts_tobitarray(_)
parts_tobitarray(parts) ==
  IF parts = << >> THEN << >>
  ELSE (IF Head(parts).isa = "PacketData"
        THEN <<0>> \o PacketData_tobitarray(Head(parts))
        ELSE <<1>> \o PacketAck_tobitarray(Head(parts)))
         \o parts_tobitarray(Tail(parts))

Packet_tobitarray(self) ==
  int2bitarray(self.seqnr[1], 14)
    \o parts_tobitarray(self.parts)
    \o <<1>>
    \o (IF self.paddingbits # None /\ self.paddingbits # Some(<< >>)
        THEN self.paddingbits[1] ELSE << >>)

\* history: the parser state and the bits left before and after a PacketData
\* part, and whether its frombitarray returned
trace_entry(part, state, rest, d) ==
  [part |-> part, before |-> state, after |-> d.state,
   bitsbefore |-> rest, bitsafter |-> d.bits, completed |-> d.exc = NoExc]

\* the while loop with every part decoded against the parser state the packet
\* started with
RECURSIVE packet_parts_stale(_, _, _, _)
packet_parts_stale(bits, parts, state, trace) ==
  IF bits = << >>
  THEN [exc |-> NoExc, bits |-> bits, parts |-> parts, state |-> state, trace |-> trace]
  ELSE IF Head(bits) = 0
  THEN Bind(PacketData_frombitarray(PacketData, Tail(bits), state), LAMBDA d :
         IF d.exc # NoExc
         THEN [exc |-> d.exc, bits |-> d.bits, parts |-> Append(parts, d.obj),
               state |-> d.state,
               trace |-> Append(trace, trace_entry(Len(parts) + 1, state, Tail(bits), d))]
         ELSE packet_parts_stale(d.bits, Append(parts, d.obj), state,
                                 Append(trace, trace_entry(Len(parts) + 1, state, Tail(bits), d))))
  ELSE IF Len(Tail(bits)) >= 14
  THEN Bind(PacketAck_frombitarray(PacketAck, Tail(bits)), LAMBDA a :
         packet_parts_stale(a.bits, Append(parts, a.obj), state, trace))
  ELSE [exc |-> NoExc, bits |-> Tail(bits), parts |-> parts, state |-> state,
        trace |-> trace]

\* the while loop of Packet.frombitarray; trace is history, an entry for each
\* PacketData part
RECURSIVE packet_parts(_, _, _, _)
packet_parts(bits, parts, state, trace) ==
  IF bits = << >>
  THEN [exc |-> NoExc, bits |-> bits, parts |-> parts, state |-> state, trace |-> trace]
  ELSE IF Head(bits) = 0
  THEN Bind(PacketData_frombitarray(PacketData, Tail(bits), state), LAMBDA d :
         IF d.exc # NoExc
         THEN [exc |-> d.exc, bits |-> d.bits, parts |-> Append(parts, d.obj),
               state |-> d.state,
               trace |-> Append(trace, trace_entry(Len(parts) + 1, state, Tail(bits), d))]
         ELSE packet_parts(d.bits, Append(parts, d.obj), d.state,
                           Append(trace, trace_entry(Len(parts) + 1, state, Tail(bits), d))))
  ELSE IF Len(Tail(bits)) >= 14
  THEN Bind(PacketAck_frombitarray(PacketAck, Tail(bits)), LAMBDA a :
         packet_parts(a.bits, Append(parts, a.obj), state, trace))
  ELSE [exc |-> NoExc, bits |-> Tail(bits), parts |-> parts, state |-> state,
        trace |-> trace]

\* packet_end without the test of the number of bits left: whatever follows the
\* terminator is taken as padding
packet_end_any_padding(self, bits, original_nbits, parsed_nbits, state, trace) ==
  IF Len(bits) # original_nbits - parsed_nbits
  THEN [exc |-> RuntimeError("Coding error: parsed bits + unparsed bits does not equal total bits"),
        bits |-> bits, obj |-> self, state |-> state, trace |-> trace]
  ELSE [exc |-> NoExc, bits |-> << >>, obj |-> [self EXCEPT !.paddingbits = Some(bits)],
        state |-> state, trace |-> trace]

\* packet_end taking as many padding bits as the parsed bits leave over in
\* their last byte, instead of as many as are missing from it
packet_end_padding_is_remainder(self, bits, original_nbits, parsed_nbits, state, trace) ==
  IF Len(bits) # original_nbits - parsed_nbits
  THEN [exc |-> RuntimeError("Coding error: parsed bits + unparsed bits does not equal total bits"),
        bits |-> bits, obj |-> self, state |-> state, trace |-> trace]
  ELSE IF Len(bits) # parsed_nbits % 8
  THEN [exc |-> ParseError("Left over bits at the end of the packet", bits),
        bits |-> bits, obj |-> self, state |-> state, trace |-> trace]
  ELSE Bind(getnbits(parsed_nbits % 8, bits), LAMBDA p :
         [exc |-> NoExc, bits |-> p.bits, obj |-> [self EXCEPT !.paddingbits = Some(p.got)],
          state |-> state, trace |-> trace])

\* lines 1634-1646: the checks after the loop, and the padding
packet_end(self, bits, original_nbits, parsed_nbits, state, trace) ==
  IF Len(bits) # original_nbits - parsed_nbits
  THEN [exc |-> RuntimeError("Coding error: parsed bits + unparsed bits does not equal total bits"),
        bits |-> bits, obj |-> self, state |-> state, trace |-> trace]
  ELSE IF Len(bits) # 8 - (parsed_nbits % 8)
  THEN [exc |-> ParseError("Left over bits at the end of the packet", bits),
        bits |-> bits, obj |-> self, state |-> state, trace |-> trace]
  ELSE Bind(getnbits(8 - (parsed_nbits % 8), bits), LAMBDA p :
         [exc |-> NoExc, bits |-> p.bits, obj |-> [self EXCEPT !.paddingbits = Some(p.got)],
          state |-> state, trace |-> trace])

\* lines 1620-1646: the parts, then the checks and the padding
packet_after_seqnr(self, bits, original_nbits, state) ==
  Bind(packet_parts(bits, self.parts, state, << >>), LAMBDA l :
    IF l.exc # NoExc
    THEN [exc |-> l.exc, bits |-> l.bits, obj |-> [self EXCEPT !.parts = l.parts],
          state |-> l.state, trace |-> l.trace]
    ELSE packet_end([self EXCEPT !.parts = l.parts], l.bits, original_nbits,
                    Len(Packet_tobitarray([self EXCEPT !.parts = l.parts])),
                    l.state, l.trace))

Packet_frombitarray(self, bits0, state) ==
  Bind(getnbits(14, bits0), LAMBDA s :
    IF s.exc # NoExc
    THEN [exc |-> s.exc, bits |-> bits0, obj |-> self, state |-> state, trace |-> << >>]
    ELSE packet_after_seqnr([self EXCEPT !.seqnr = Some(toint(s.got))], s.bits,
                            Len(bits0), state))

\* ------------------------------------------------------------------ Parser

\* history: the bindings the call created, from the state after each part
RECURSIVE new_bindings(_, _, _)
new_bindings(call, parts, trace) ==
  IF trace = << >> THEN << >>
  ELSE LET e == Head(trace)
           part == parts[e.part]
           channel == part.channel_data[1].channel[1]
           payload == part.channel_data[1].payload[1]
       IN (IF part.channel_data # None /\ part.channel_data[1].payload # None
              /\ payload.object_class # None /\ payload.instancename # None
           THEN << [call |-> call, part |-> e.part, channel |-> channel,
                    classname |-> e.after.class_dict[e.after.channels[channel].class].name,
                    instancename |-> payload.instancename[1]] >>
           ELSE << >>)
            \o new_bindings(call, parts, Tail(trace))

\* Parser.parsepacket(bits, exception_on_failure = ...) on this Parser.
\* last records the call: its arguments, the parser state it started from,
\* the Packet object as frombitarray left it, what frombitarray raised (exc),
\* what left parsepacket as an exception (raised) and what it returned.
parsepacket(bits, exception_on_failure) ==
  /\ called < MaxPackets
  /\ \E r \in { Packet_frombitarray(Packet, bits, parser_state) } :
       LET caught == r.exc # NoExc /\ r.exc[1].type = "ParseError"
           raised == r.exc # NoExc /\ (~caught \/ exception_on_failure)
       IN /\ parser_state' = r.state
          /\ last' = [bits |-> bits,
                      exception_on_failure |-> exception_on_failure,
                      before |-> parser_state,
                      packet |-> r.obj,
                      trace |-> r.trace,
                      exc |-> r.exc,
                      raised |-> IF raised THEN r.exc ELSE None,
                      errormsg |-> IF caught THEN Some(r.exc[1].message) ELSE None,
                      bitsleft |-> IF caught THEN Some(r.exc[1].bitsleft) ELSE None,
                      after_failure |-> called > 0 /\ last.exc # NoExc]
          /\ introduced' = introduced \o new_bindings(called + 1, r.obj.parts, r.trace)
  /\ called' = called + 1
  /\ UNCHANGED <<float_quiets_snan, other, server_vars>>

\* a new Parser(): parser_state = ParserState(), nothing parsed yet; a new
\* GameServer(): no players, no votekick (gameserver.py 67-68)
Init ==
  /\ parser_state = ParserState
  /\ called = 0
  /\ introduced = << >>
  /\ float_quiets_snan \in BOOLEAN
  /\ last = [bits |-> << >>, exception_on_failure |-> TRUE, before |-> ParserState,
             packet |-> Packet, trace |-> << >>, exc |-> NoExc, raised |-> None,
             errormsg |-> None, bitsleft |-> None, after_failure |-> FALSE]
  /\ other = [parser_state |-> ParserState, called |-> 0, bits |-> << >>,
              packet |-> Packet, exc |-> NoExc]
  /\ players = << >>
  /\ vote = [p \in Players |-> None]
  /\ player_being_kicked = None
  /\ pending_callbacks = << >>
  /\ blacklist = {}
  /\ votekicks = 0
  /\ sent = Call("__init__", << >>)

\* debugbits with debug = True, lines 801-813: the checks the wrapper makes
\* once frombitarray has returned bitsafter; serialized is self.tobitarray()
debugbits(serialized, bitsbefore, bitsafter) ==
  LET nbits_consumed == Len(bitsbefore) - Len(bitsafter)
  IN IF SubSeq(bitsbefore, nbits_consumed + 1, Len(bitsbefore)) # bitsafter
     THEN RuntimeError("Function not returning a tail of the input bits")
     ELSE IF SubSeq(bitsbefore, 1, nbits_consumed) # serialized
     THEN RuntimeError("Object serialized into bits is not equal to bits parsed")
     ELSE NoExc
\* ------------------------------------------------------------------ inputs
\* The packets handed to parsepacket are made here, field by field.

u(n, width) == int2bits(n, width)

\* the padding that ends the packet on the next byte, out of a fixed pattern
PadPattern == <<0, 1, 1, 0, 1, 0, 0, 1>>

PaddingFor(nbits) == SubSeq(PadPattern, 1, 8 - (nbits % 8))

RECURSIVE Flatten(_)
Flatten(seqs) == IF seqs = << >> THEN << >> ELSE Head(seqs) \o Flatten(Tail(seqs))

\* seqnr, the parts, the terminator and the padding
MkPacket(seqnr, parts) ==
  LET body == u(seqnr, 14) \o Flatten(parts) \o <<1>>
  IN body \o PaddingFor(Len(body))

\* an unreliable data part (flag1a = 00)
MkData(channel, body) == <<0, 0, 0>> \o u(channel, 10) \o u(Len(body), 14) \o body

\* a reliable data part: flag1a = 01
MkReliable(channel, counter, opaque, body) ==
  <<0, 0, 1>> \o u(channel, 10) \o u(counter, 5) \o opaque \o u(Len(body), 14) \o body

MkAck(acknr) == <<1>> \o u(acknr, 14)

\* the ASCII bytes of a string value and its terminator, as the wire holds them
CString(codes) == Flatten([i \in 1..Len(codes) |-> u(codes[i], 8)]) \o u(0, 8)

\* class keys of the class table
KeyWorldInfo2 == <<0,1,0,1,0,1,0,1,1,1,1,0,0,1,0,1,1,1,1,0,0,0,0,0,0,0,0,0,0,0,0,0>>

KeyTrPlayerController == <<0,0,1,1,0,0,0,1,0,1,0,0,0,0,0,1,0,1,0,0,0,0,0,0,0,0,0,0,0,0,0,0>>

KeyTrGameReplicationInfo == <<0,1,1,1,0,0,0,1,1,0,1,1,1,0,1,1,0,1,0,0,0,0,0,0,0,0,0,0,0,0,0,0>>

KeyFirstServerObject == <<1,0,0,0,1>> \o [i \in 1..27 |-> 0]

\* the bits of the float32 0x7f800001, a signaling NaN
FloatSNaN == <<1>> \o [i \in 1..22 |-> 0] \o [i \in 1..8 |-> 1] \o <<0>>

\* WorldInfo2 properties: TimeDilation and WorldGravityZ, both int
TimeDilation(n) == <<0,0,0,1,1>> \o u(n, 32)

WorldGravityZ(n) == <<0,1,1,0,1>> \o u(n, 32)

\* FirstServerObject property mysteryproperty5: an int and an empty string
MysteryProperty5(n) == <<1,1,0,0,0,0,0,0>> \o u(n, 32) \o u(0, 32)

\* TrPlayerController RPC ClientAckGoodMove: one float parameter, present
ClientAckGoodMove(floatbits) == <<0,1,1,1,1,1,0,0>> \o <<1>> \o floatbits

\* TrGameReplicationInfo property ServerName with a declared string size
ServerName(size, codes) == <<0,1,1,0,1,0>> \o u(size, 32) \o CString(codes)

\* parts of the object life cycle
IntroWorldInfo == MkData(5, KeyWorldInfo2 \o TimeDilation(7))

UpdateWorldInfo == MkData(5, WorldGravityZ(3))

Destroy5 == MkData(5, << >>)

ShortBody5 == MkData(5, <<0,0,0,1,1>>)

IntroWorldInfoOn6 == MkData(6, KeyWorldInfo2)

IntroRoot == MkData(0, KeyFirstServerObject \o MysteryProperty5(9))

UpdateRoot == MkData(0, MysteryProperty5(9))

Destroy0 == MkData(0, << >>)

IntroControllerNaN ==
  MkReliable(9, 3, u(129, 8), KeyTrPlayerController \o ClientAckGoodMove(FloatSNaN))

LifePackets ==
  { MkPacket(1, <<IntroWorldInfo>>), MkPacket(2, <<UpdateWorldInfo>>),
    MkPacket(3, <<Destroy5>>), MkPacket(4, <<ShortBody5>>),
    MkPacket(5, <<IntroWorldInfoOn6>>), MkPacket(6, <<IntroRoot>>),
    MkPacket(7, <<UpdateRoot>>), MkPacket(8, <<Destroy0>>),
    MkPacket(9, <<IntroControllerNaN>>), MkPacket(10, <<MkAck(42)>>),
    MkPacket(11, <<IntroWorldInfo, Destroy5>>),
    MkPacket(12, <<Destroy5, IntroWorldInfo>>),
    MkPacket(13, <<IntroWorldInfo, UpdateWorldInfo>>),
    MkPacket(14, <<Destroy5, ShortBody5>>) }

\* a session of packets that follow the wire format
Next == \E bits \in LifePackets, e \in BOOLEAN : parsepacket(bits, e)

Spec == Init /\ [][Next]_vars

\* ------------------------------------------------------- inputs with faults

\* a string whose declared size (5) is not the size of what follows (3)
StringSizeFault == MkData(7, KeyTrGameReplicationInfo \o ServerName(5, <<97, 98>>))

\* a valid property, then a key that no WorldInfo2 property has, then 3 bits
UnknownAfterValid == MkData(5, KeyWorldInfo2 \o TimeDilation(7) \o <<1,1,1,1,1>> \o <<1,0,1>>)

\* the same after an RPC whose float parameter is a signaling NaN
UnknownAfterNaN ==
  MkReliable(9, 3, u(129, 8),
             KeyTrPlayerController \o ClientAckGoodMove(FloatSNaN)
               \o <<1,1,1,1,1,1,1,1>> \o <<0,1>>)

\* input that ends inside the sequence number
ShortSeqnr == u(21, 10)

\* input that ends after the sequence number
SeqnrOnly == u(22, 14)

\* a data part that ends inside flag1a, the channel, the counter, the size
\* field and the body
ShortFlags == u(23, 14) \o <<0, 0>>

ShortChannel == u(24, 14) \o <<0, 0, 0>> \o u(5, 4)

ShortCounter == u(25, 14) \o <<0, 0, 1>> \o u(9, 10) \o <<1, 0, 1>>

ShortSize == u(26, 14) \o <<0, 0, 0>> \o u(5, 10) \o u(3, 6)

ShortBody == u(27, 14) \o <<0, 0, 0>> \o u(5, 10) \o u(40, 14) \o <<1, 0, 1, 1, 0>>

\* flag1a = 10 followed by 01 where 11 is required
BadFlag == u(28, 14) \o <<0, 1, 0, 0, 1>> \o u(5, 10)

\* a finished packet with one bit too many after the terminator
WrongPadding == MkPacket(29, <<MkAck(42)>>) \o <<0>>

\* the string fault in a packet whose padding is one bit too long as well
StringSizeFaultWrongPadding == MkPacket(30, <<StringSizeFault>>) \o <<0>>

\* packets whose framing is complete: what is wrong, if anything, is inside
\* a payload body
BodyFaultPackets ==
  { MkPacket(31, <<ShortBody5>>), MkPacket(32, <<StringSizeFault>>),
    MkPacket(33, <<UnknownAfterValid>>), MkPacket(34, <<UnknownAfterNaN>>) }

\* packets with a fault in the framing
FramingFaultPackets ==
  { ShortSeqnr, SeqnrOnly, ShortFlags, ShortChannel, ShortCounter, ShortSize,
    ShortBody, BadFlag, WrongPadding, StringSizeFaultWrongPadding }

SoundPackets ==
  { MkPacket(1, <<IntroWorldInfo>>), MkPacket(3, <<Destroy5>>),
    MkPacket(5, <<IntroWorldInfoOn6>>), MkPacket(10, <<MkAck(42)>>) }

FaultPackets == SoundPackets \cup BodyFaultPackets \cup FramingFaultPackets

\* a session in which some packets are damaged
NextErr == \E bits \in FaultPackets, e \in BOOLEAN : parsepacket(bits, e)

SpecErr == Init /\ [][NextErr]_vars

\* ------------------------------------------------- inputs of the wire format

RECURSIVE Repeat(_, _)
Repeat(seq, n) == IF n = 0 THEN << >> ELSE seq \o Repeat(seq, n - 1)

\* a data part (flag1a = 00) whose size field is given bit by bit
MkDataRaw(channel, sizebits, rest) == <<0, 0, 0>> \o u(channel, 10) \o sizebits \o rest

\* a reliable data part with flag1a = 10 and the two bits after it
MkReliable10(extra, channel, counter, opaque, body) ==
  <<0, 1, 0>> \o extra \o u(channel, 10) \o u(counter, 5) \o opaque
    \o u(Len(body), 14) \o body

\* a data part behind the escape marker 11: the tag, 11, and the part's own
\* bits from flag1a on
MkEscaped(part) == <<0, 1, 1>> \o Tail(part)

\* seven acks: with the sequence number and the terminator, 120 bits
SevenAcks == u(50, 14) \o Repeat(MkAck(42), 7) \o <<1>>

\* packets that exercise the fields of the wire format.
\* KeyServerObject(n): a class key that starts with 10001, n in the 27 bits
\* after it; KeyNotInTable: a class key that is not in the class table;
\* Intro(channel, key): the introduction of an object of that class;
\* NeedTeam and CurrentCredits: the TrPlayerController properties r_bNeedTeam
\* (bool) and r_nCurrentCredits (32 bits kept as they are).
\* 41: size field 1040 with the bit after it set (bits 10 and 13 of the 14
\*     bits read are 1); the body is 1040 bits from that bit on, a class key
\*     and 14 properties of 72 bits.
\* 42: the 14 bits of 0b10010010000100 = 9348 as the size field; 1156 bits
\*     follow the first 13 of them, a class key, 15 properties and 44 zeros.
\* 43: size field 1040 in 14 bits, bit 10 is 1 and bit 13 is 0.
\* 44: size field 8192, bit 13 is 1 and bit 10 is 0; the input ends inside
\*     the body.
\* 45-49, 63: introductions on channels 8, 9 and 0; 51, 52: a payload for the
\*     object on channel 8 and its end.
\* 53-59: the reliable introduction of a class, framed in the ways flag1a
\*     allows, and the frames it does not allow.
\* 62: size field 1050 with the bit after it set, for the object on channel
\*     9: r_bNeedTeam, an RPC whose float is a signaling NaN, 25 times
\*     r_nCurrentCredits.
\* 64: the introductions of two classes that are not in the class table.
WirePackets ==
  LET KeyServerObject(n) == <<1,0,0,0,1>> \o u(n, 27)
      KeyNotInTable == <<0,1,1,0,0,1,1,1>> \o u(5, 24)
      KeyAlsoNotInTable == <<0,1,1,0,0,1,1,1>> \o u(6, 24)
      Intro(channel, key) == MkData(channel, key \o MysteryProperty5(9))
      Reliable01 == MkReliable(9, 3, u(129, 8), KeyFirstServerObject \o MysteryProperty5(9))
      Reliable10 == MkReliable10(<<1, 1>>, 9, 3, u(129, 8),
                                 KeyFirstServerObject \o MysteryProperty5(9))
      NeedTeam(b) == <<1,1,0,0,0,0,1,1>> \o <<b>>
      CurrentCredits(n) == <<1,0,1,1,1,1,0,1>> \o u(n, 32)
  IN { MkPacket(1, <<MkAck(42)>>),
       MkPacket(41, <<MkDataRaw(8, u(1040, 13) \o <<1>>,
                        Tail(KeyServerObject(77) \o Repeat(MysteryProperty5(9), 14)))>>),
       MkPacket(42, <<MkDataRaw(8, u(9348, 14),
                        Tail(KeyServerObject(4242) \o Repeat(MysteryProperty5(9), 15)
                               \o u(0, 44)))>>),
       MkPacket(43, <<MkData(8, KeyFirstServerObject \o Repeat(MysteryProperty5(9), 14))>>),
       u(44, 14) \o MkDataRaw(8, u(8192, 14), <<1, 0, 1>>),
       MkPacket(45, <<Intro(8, KeyServerObject(77))>>),
       MkPacket(46, <<Intro(9, KeyServerObject(4242))>>),
       MkPacket(47, <<MkData(8, KeyNotInTable)>>),
       MkPacket(48, <<MkData(9, KeyNotInTable)>>),
       MkPacket(49, <<MkData(0, KeyNotInTable)>>),
       MkPacket(51, <<MkData(8, MysteryProperty5(9))>>),
       MkPacket(52, <<MkData(8, << >>)>>),
       SevenAcks, SevenAcks \o PadPattern,
       MkPacket(53, <<Reliable01>>), MkPacket(54, <<Reliable10>>),
       MkPacket(55, <<MkEscaped(Intro(8, KeyServerObject(77)))>>),
       MkPacket(56, <<MkEscaped(Reliable01)>>),
       MkPacket(57, <<MkEscaped(Reliable10)>>),
       MkPacket(58, <<MkEscaped(MkEscaped(Intro(8, KeyServerObject(77))))>>),
       MkPacket(59, <<MkReliable10(<<0, 1>>, 9, 3, u(129, 8), << >>)>>),
       MkPacket(60, <<MkAck(42), Intro(8, KeyServerObject(77)), MkAck(7)>>),
       MkPacket(61, <<MkData(9, KeyTrPlayerController)>>),
       MkPacket(62, <<MkDataRaw(9, u(1050, 13) \o <<1>>,
                        Tail(NeedTeam(1) \o ClientAckGoodMove(FloatSNaN)
                               \o Repeat(CurrentCredits(5), 25)))>>),
       MkPacket(63, <<Intro(0, KeyServerObject(4242))>>),
       MkPacket(64, <<MkData(10, KeyNotInTable), MkData(11, KeyAlsoNotInTable)>>) }

\* a session of packets that exercise the fields of the wire format
NextWire == \E bits \in WirePackets : parsepacket(bits, FALSE)

SpecWire == Init /\ [][NextWire]_vars

\* ----------------------------------------------- inputs of the value codecs

\* packets whose payload bodies exercise the value codecs.
\* Strings (71-82): the TrGameReplicationInfo property ServerName, key 011010,
\* on channel 7: a 32-bit size and the bytes that follow it.
\* 71: size 3 and 'a', 'b', 0.  72: size 0.  73: size 0, then size 2 and
\*     'a', 0.  74: size 3 and 'a', 'b', where the body ends.  75: size 3 and
\*     'a', 'b' and three 0 bits.  76: the same with the bits 1, 0, 0.
\* 77: size 2 and 'a', 'b', 0.  78: size 3 and 'a', 0, 'b', 0.  79: 20 bits
\*     where the size is to be.  80: size 1 and a 0 byte.  81: size 1 where
\*     the body ends.  82: size 5 and 'a', 'b', 0.
\* 83: the end of the object on channel 7.
\* Params (84-89): the TrPlayerController RPC ClientGotoState, key 00100100,
\* on channel 9: two members of 11 bits, each behind a presence bit.
\* 84: both present.  85: the second only.  86: none.  87: the first, where
\*     the body ends.  88: the presence bit of the first and 5 bits.  89: the
\*     key only.
\* 90: a string of size 0 and three bits, fewer than a key of the class.
\* 91: the tuple mysteryproperty5 of the root object: an int and a string.
\* 92, 93: the TrGameReplicationInfo property FlagState, ten bits with an
\*     enum map: 'Own flag taken', and ten bits the map does not hold.
\* 94, 95: the TrPlayerController RPC ClientAckGoodMove, one float behind a
\*     presence bit: a signaling NaN, and 1.0.
\* Packets without parts: sequence number 0 and the terminator, followed by
\* seven 0 bits, by one 0 bit, by one 1 bit.
ValuePackets ==
  LET Bytes(codes) == Flatten([i \in 1..Len(codes) |-> u(codes[i], 8)])
      Str(size, rest) == <<0,1,1,0,1,0>> \o u(size, 32) \o rest
      Gri(seqnr, body) == MkPacket(seqnr, <<MkData(7, KeyTrGameReplicationInfo \o body)>>)
      Tpc(seqnr, body) == MkPacket(seqnr, <<MkData(9, KeyTrPlayerController \o body)>>)
      GotoState == <<0,0,1,0,0,1,0,0>>
  IN { Gri(71, Str(3, Bytes(<<97, 98, 0>>))),
       Gri(72, Str(0, << >>)),
       Gri(73, Str(0, << >>) \o Str(2, Bytes(<<97, 0>>))),
       Gri(74, Str(3, Bytes(<<97, 98>>))),
       Gri(75, Str(3, Bytes(<<97, 98>>) \o <<0, 0, 0>>)),
       Gri(76, Str(3, Bytes(<<97, 98>>) \o <<1, 0, 0>>)),
       Gri(77, Str(2, Bytes(<<97, 98, 0>>))),
       Gri(78, Str(3, Bytes(<<97, 0, 98, 0>>))),
       Gri(79, <<0,1,1,0,1,0>> \o u(3, 20)),
       Gri(80, Str(1, Bytes(<<0>>))),
       Gri(81, Str(1, << >>)),
       Gri(82, Str(5, Bytes(<<97, 98, 0>>))),
       MkPacket(83, <<MkData(7, << >>)>>),
       Tpc(84, GotoState \o <<1>> \o u(1365, 11) \o <<1>> \o u(682, 11)),
       Tpc(85, GotoState \o <<0>> \o <<1>> \o u(682, 11)),
       Tpc(86, GotoState \o <<0, 0>>),
       Tpc(87, GotoState \o <<1>> \o u(1365, 11)),
       Tpc(88, GotoState \o <<1>> \o u(21, 5)),
       Tpc(89, GotoState),
       Gri(90, Str(0, << >>) \o <<0, 1, 1>>),
       MkPacket(91, <<MkData(0, KeyFirstServerObject \o MysteryProperty5(9))>>),
       Gri(92, <<0,0,1,0,0,1>> \o <<1,0,0,0,0,0,0,0,0,1>>),
       Gri(93, <<0,0,1,0,0,1>> \o <<1,1,1,1,1,1,1,1,1,1>>),
       Tpc(94, ClientAckGoodMove(FloatSNaN)),
       Tpc(95, ClientAckGoodMove(u(1065353216, 32))),
       u(0, 14) \o <<1>> \o Repeat(<<0>>, 7),
       u(0, 14) \o <<1, 0>>,
       u(0, 14) \o <<1, 1>> }

\* a session of packets that exercise the value codecs
SpecValue == Init /\ [][\E bits \in ValuePackets : parsepacket(bits, FALSE)]_vars

\* ------------------------------------------------------------------ two sessions

\* the same call with a Parser whose parser_state is the first Parser's
\* object: what it binds shows in both
other_parsepacket_shared(bits) ==
  /\ other.called < MaxPackets
  /\ \E r \in { Packet_frombitarray(Packet, bits, parser_state) } :
       /\ other' = [parser_state |-> r.state, called |-> other.called + 1,
                    bits |-> bits, packet |-> r.obj, exc |-> r.exc]
       /\ parser_state' = r.state
  /\ UNCHANGED <<last, called, introduced, float_quiets_snan, server_vars>>

\* Parser.parsepacket(bits) on the second Parser of the process. Parser.__init__
\* gave it a ParserState() of its own, whose dictionaries are built inside
\* ParserState.__init__; the module keeps no state outside the Parser objects.
other_parsepacket(bits) ==
  /\ other.called < MaxPackets
  /\ \E r \in { Packet_frombitarray(Packet, bits, other.parser_state) } :
       other' = [parser_state |-> r.state, called |-> other.called + 1,
                 bits |-> bits, packet |-> r.obj, exc |-> r.exc]
  /\ UNCHANGED <<parser_state, last, called, introduced, float_quiets_snan, server_vars>>

\* two sessions of one process, their calls interleaved in any order: the
\* packets open a channel with a class of the table and with a class that is
\* not in it, continue one and close one
SpecTwo ==
  Init /\ [][\E bits \in { MkPacket(1, <<IntroWorldInfo>>), MkPacket(2, <<UpdateWorldInfo>>),
                           MkPacket(3, <<Destroy5>>), MkPacket(5, <<IntroWorldInfoOn6>>),
                           MkPacket(47, <<MkData(5, <<0,1,1,0,0,1,1,1>> \o u(5, 24))>>) } :
              \/ parsepacket(bits, FALSE)
              \/ other_parsepacket(bits)]_vars

\* ------------------------------------------------------------ game server
\* The votekick of src/login_server/gameserver.py.  A handler of GameServer
\* runs from its first line to its last without another one in between; the
\* calls it makes into code outside the file are taken by their effect on the
\* state of this file: player.send and self.send add to sent.messages,
\* pending_callbacks.add appends to pending_callbacks, modify_firewall adds a
\* rule to blacklist or removes it, and player.set_state either takes the
\* player out of the players table (through remove_player) or leaves it there.
\* The receiver of a message is the unique_id of a player, or 0 for the game
\* server launcher that self.send writes to.

parser_vars == <<parser_state, last, called, introduced, float_quiets_snan, other>>

\* unique_id in self.players
InTable(unique_id) == \E i \in DOMAIN players : players[i] = unique_id

\* self.players.values(), as a set
Table == { players[i] : i \in DOMAIN players }

\* del self.players[unique_id]: the other entries keep their order
Deleted(table, unique_id) == SelectSeq(table, LAMBDA p : p # unique_id)

\* an entry of pending_callbacks: the function to call after delay seconds,
\* what its closure holds, and the number of the votekick that added it
Callback(delay, callback_func, closure, votekick) ==
  [delay |-> delay, callback_func |-> callback_func, closure |-> closure,
   votekick |-> votekick]

\* the place of the entry for callback_func that was added first; entries
\* for one function have one delay, so it is the one due first
Due(callback_func) ==
  CHOOSE i \in DOMAIN pending_callbacks :
    /\ pending_callbacks[i].callback_func = callback_func
    /\ \A j \in 1..(i - 1) : pending_callbacks[j].callback_func # callback_func

IsDue(callback_func) ==
  \E i \in DOMAIN pending_callbacks : pending_callbacks[i].callback_func = callback_func

WithoutEntry(i) ==
  SubSeq(pending_callbacks, 1, i - 1) \o SubSeq(pending_callbacks, i + 1, Len(pending_callbacks))

\* the call as it begins: the vote and the players table it finds
Begin(op, args) ==
  [Call(op, args) EXCEPT !.kickee = player_being_kicked, !.table = players]

\* lines 163-165: data goes to every player of the table
send_all_players(table, data) == { <<table[i], data>> : i \in DOMAIN table }

\* lines 146-153; the assert keeps a player of the table out
add_player(player) ==
  /\ ~InTable(player)
  /\ players' = Append(players, player)
  /\ vote' = [vote EXCEPT ![player] = None]
  /\ sent' = [Begin("add_player", <<player>>) EXCEPT
                !.took_effect = TRUE,
                !.messages = {<<0, "Login2LauncherAddPlayer">>}]
  /\ UNCHANGED <<player_being_kicked, pending_callbacks, blacklist, votekicks, parser_vars>>

\* lines 155-161; the assert lets only a player of the table through
remove_player(player) ==
  /\ InTable(player)
  /\ players' = Deleted(players, player)
  /\ sent' = [Begin("remove_player", <<player>>) EXCEPT
                !.took_effect = TRUE,
                !.messages = {<<0, "Login2LauncherRemovePlayer">>}]
  /\ UNCHANGED <<vote, player_being_kicked, pending_callbacks, blacklist, votekicks,
                 parser_vars>>

\* lines 95-98: every player is set to AuthenticatedState; leaving says
\* whether set_state takes a player out of the table
disconnect(leaving) ==
  /\ players' = IF leaving THEN << >> ELSE players
  /\ sent' = [Begin("disconnect", << >>) EXCEPT
                !.took_effect = TRUE,
                !.messages = IF leaving /\ players # << >>
                             THEN {<<0, "Login2LauncherRemovePlayer">>} ELSE {}]
  /\ UNCHANGED <<vote, player_being_kicked, pending_callbacks, blacklist, votekicks,
                 parser_vars>>

\* the vote of a player reaches the player object (the handler that writes
\* player.vote is outside the file); votes are cast while a vote is open, by
\* players of the table
cast_vote(player, v) ==
  /\ InTable(player)
  /\ player_being_kicked # None
  /\ vote' = [vote EXCEPT ![player] = Some(v)]
  /\ sent' = Begin("vote", <<player, v>>)
  /\ UNCHANGED <<players, player_being_kicked, pending_callbacks, blacklist, votekicks,
                 parser_vars>>

\* lines 238-241: the dict from address to vote; of the players at one
\* address the one that comes last in the table gives the vote
eligible_voters_votes(table, votes) ==
  [a \in { Address(table[i]) : i \in DOMAIN table } |->
     votes[table[CHOOSE i \in DOMAIN table :
                   /\ Address(table[i]) = a
                   /\ \A j \in DOMAIN table : Address(table[j]) = a => j <= i]]]

\* lines 237-245: votes is the set of the values that are not None
tally_votes(table, votes) ==
  LET voters == eligible_voters_votes(table, votes)
      cast == { voters[a] : a \in DOMAIN voters } \ {None}
      yes_votes == { v \in cast : v[1] }
  IN [eligible_voters |-> Cardinality(DOMAIN voters),
      total_votes |-> Cardinality(cast),
      yes_votes |-> Cardinality(yes_votes)]

\* a game server that starts a votekick while another one is open: C33 tells
\* it from the code
may_start_votekick_during_vote(kickee) == InTable(kickee)

\* line 184: the test of start_votekick
may_start_votekick(kickee) == InTable(kickee) /\ player_being_kicked = None

\* a game server that adds no callback for the end of a votekick: C39 tells
\* it from the code
votekick_timeout_unscheduled(callbacks, votekick) == callbacks

\* line 208: what start_votekick leaves in pending_callbacks
votekick_timeout(callbacks, votekick) ==
  Append(callbacks, Callback(35, "end_votekick", << >>, votekick))

\* lines 183-208; a session has MaxVotekicks votekicks at most
start_votekick(kicker, kickee) ==
  /\ IF may_start_votekick(kickee)
     THEN /\ votekicks < MaxVotekicks
          /\ vote' = [p \in Players |-> IF InTable(p) THEN None ELSE vote[p]]
          /\ player_being_kicked' = Some(kickee)
          /\ pending_callbacks' = votekick_timeout(pending_callbacks, votekicks + 1)
          /\ votekicks' = votekicks + 1
          /\ sent' = [Begin("start_votekick", <<kickee>>) EXCEPT
                        !.took_effect = TRUE,
                        !.messages = send_all_players(players,
                                                      "VOTE_BY_X_KICK_PLAYER_X_YES_NO"),
                        !.scheduled = SubSeq(pending_callbacks', Len(pending_callbacks) + 1,
                                             Len(pending_callbacks'))]
     ELSE /\ sent' = Begin("start_votekick", <<kickee>>)
          /\ UNCHANGED <<vote, player_being_kicked, pending_callbacks, votekicks>>
  /\ UNCHANGED <<players, blacklist, parser_vars>>

\* lines 247-286, called by call with callbacks pending; leaving says whether
\* set_state(UnauthenticatedState) takes the player out of the table
do_kick(call, callbacks, votekick_passed, leaving) ==
  LET player_to_kick == player_being_kicked[1]
      ip_to_ban_on_login_server == Address(player_to_kick)
      rule == <<player_to_kick, ip_to_ban_on_login_server>>
      remove_blacklist_rule == Callback(8 * 3600, "remove_blacklist_rule", rule, 0)
  IN /\ IF votekick_passed
        THEN /\ players' = IF leaving THEN Deleted(players, player_to_kick) ELSE players
             /\ blacklist' = blacklist \cup {rule}
             /\ pending_callbacks' = Append(callbacks, remove_blacklist_rule)
             /\ sent' = [call EXCEPT
                           !.votekick_passed = Some(TRUE),
                           !.messages =
                             {<<player_to_kick, "a00b0">>, <<player_to_kick, "a0035">>,
                              <<player_to_kick, "a006f">>}
                               \cup IF leaving /\ InTable(player_to_kick)
                                    THEN {<<0, "Login2LauncherRemovePlayer">>}
                                    ELSE {},
                           !.scheduled = <<remove_blacklist_rule>>]
        ELSE /\ sent' = [call EXCEPT
                           !.votekick_passed = Some(FALSE),
                           !.messages = send_all_players(players,
                                                         "PLAYER_X_WAS_NOT_VOTED_OUT")]
             /\ pending_callbacks' = callbacks
             /\ UNCHANGED <<players, blacklist>>
     /\ player_being_kicked' = None

\* lines 210-221, run as the callback that start_votekick added
end_votekick(leaving) ==
  /\ IsDue("end_votekick")
  /\ LET call == [Begin("end_votekick", << >>) EXCEPT
                    !.fired = Some(pending_callbacks[Due("end_votekick")])]
         callbacks == WithoutEntry(Due("end_votekick"))
         tally == tally_votes(players, vote)
         vote_passed == /\ tally.total_votes >= 4
                        /\ 2 * tally.yes_votes >= tally.total_votes
     IN IF player_being_kicked # None
        THEN do_kick([call EXCEPT !.took_effect = TRUE, !.tally = Some(tally)],
                     callbacks, vote_passed, leaving)
        ELSE /\ sent' = call
             /\ pending_callbacks' = callbacks
             /\ UNCHANGED <<players, blacklist, player_being_kicked>>
  /\ UNCHANGED <<vote, votekicks, parser_vars>>

\* lines 223-235
check_votes(leaving) ==
  /\ LET call == Begin("check_votes", << >>)
         tally == tally_votes(players, vote)
     IN IF player_being_kicked # None
             /\ (tally.yes_votes >= 8 \/ tally.total_votes = tally.eligible_voters)
        THEN do_kick([call EXCEPT !.took_effect = TRUE, !.tally = Some(tally)],
                     pending_callbacks, TRUE, leaving)
        ELSE /\ sent' = IF player_being_kicked # None
                        THEN [call EXCEPT !.tally = Some(tally)] ELSE call
             /\ UNCHANGED <<players, blacklist, player_being_kicked, pending_callbacks>>
  /\ UNCHANGED <<vote, votekicks, parser_vars>>

\* lines 281-282, run as the callback that _do_kick added
remove_blacklist_rule ==
  /\ IsDue("remove_blacklist_rule")
  /\ blacklist' = blacklist \ {pending_callbacks[Due("remove_blacklist_rule")].closure}
  /\ pending_callbacks' = WithoutEntry(Due("remove_blacklist_rule"))
  /\ sent' = [Begin("remove_blacklist_rule", << >>) EXCEPT
                !.took_effect = TRUE,
                !.fired = Some(pending_callbacks[Due("remove_blacklist_rule")])]
  /\ UNCHANGED <<players, vote, player_being_kicked, votekicks, parser_vars>>

\* the login server process with a new GameServer() (lines 67-68): no players,
\* no votekick, no callback pending; the process makes no Parser, and the
\* variables of the parser hold nothing
InitVote ==
  /\ parser_state = << >>
  /\ last = << >>
  /\ called = 0
  /\ introduced = << >>
  /\ float_quiets_snan = FALSE
  /\ other = << >>
  /\ players = << >>
  /\ vote = [p \in Players |-> None]
  /\ player_being_kicked = None
  /\ pending_callbacks = << >>
  /\ blacklist = {}
  /\ votekicks = 0
  /\ sent = Call("__init__", << >>)

\* a game server that two players join and leave
Lobby == 2..3

NextVote ==
  \/ \E player \in Lobby : add_player(player)
  \/ \E player \in Lobby : remove_player(player)
  \/ \E leaving \in BOOLEAN : disconnect(leaving)
  \/ \E kicker, kickee \in Lobby : start_votekick(kicker, kickee)
  \/ \E player \in Lobby, v \in BOOLEAN : cast_vote(player, v)
  \/ \E leaving \in BOOLEAN : check_votes(leaving)
  \/ \E leaving \in BOOLEAN : end_votekick(leaving)
  \/ remove_blacklist_rule

SpecVote == InitVote /\ [][NextVote]_vars

\* a game server that the players join one after the other; the first of
\* them calls the votes, against the one that joins last
NextTally ==
  \/ Len(players) < MaxPlayers /\ add_player(Len(players) + 1)
  \/ start_votekick(1, MaxPlayers)
  \/ \E player \in Players, v \in BOOLEAN : cast_vote(player, v)
  \/ \E leaving \in BOOLEAN : check_votes(leaving)
  \/ \E leaving \in BOOLEAN : end_votekick(leaving)

SpecTally == InitVote /\ [][NextTally]_vars

\* the callbacks that are due are called
SpecVoteFair ==
  /\ SpecVote
  /\ WF_vars(\E leaving \in BOOLEAN : end_votekick(leaving))
  /\ WF_vars(remove_blacklist_rule)

\* ---------------------------------------------------------------- properties
\* What the last call did is read from last and from the history in
\* last.trace and introduced.

Range(f) == { f[i] : i \in DOMAIN f }

\* part i of the last packet got as far as its PayloadData
HasPayload(i) ==
  LET part == last.packet.parts[i]
  IN /\ part.isa = "PacketData"
     /\ part.channel_data # None
     /\ part.channel_data[1].payload # None

PayloadOf(e) == last.packet.parts[e.part].channel_data[1].payload[1]

ChannelOf(e) == last.packet.parts[e.part].channel_data[1].channel[1]

SizeOf(e) == PayloadOf(e).size[1]

\* the data parts of the last packet whose frombitarray returned
Steps == { e \in Range(last.trace) : e.completed }

\* the input bits the part took, and the payload body among them: its last
\* size bits
PartBits(e) == SubSeq(e.bitsbefore, 1, Len(e.bitsbefore) - Len(e.bitsafter))

Body(e) == SubSeq(PartBits(e), Len(PartBits(e)) - SizeOf(e) + 1, Len(PartBits(e)))

WasBound(e) == ChannelOf(e) \in DOMAIN e.before.channels

IsBound(e) == ChannelOf(e) \in DOMAIN e.after.channels

\* the payload took the first 32 bits of its body as a class key
ReadClassKey(e) ==
  /\ SizeOf(e) >= 32
  /\ PayloadOf(e).object_class # None
  /\ PayloadOf(e).object_class[1].classid # None
  /\ int2bitarray(PayloadOf(e).object_class[1].classid[1], 32) = SubSeq(Body(e), 1, 32)

\* the payload took its body from the first bit on as properties of class_
PureStream(e, class_) ==
  /\ PayloadOf(e).object_class = None
  /\ PayloadOf(e).instance # None
  /\ LET properties == PayloadOf(e).instance[1].properties
         key == SubSeq(Body(e), 1, class_.idsize)
     IN /\ properties # << >>
        /\ properties[1].propertyid_size = class_.idsize
        /\ SizeOf(e) >= class_.idsize =>
             /\ properties[1].propertyid = Some(toint(key))
             /\ properties[1].property_ =
                  DictGet(PropsTable(class_.props), key, Prop("Unknown", "None", NoSize)).name

\* the states in the trace follow one another from the state the call started
\* in to the state it left
Chained ==
  /\ \A k \in DOMAIN last.trace :
       last.trace[k].before = IF k = 1 THEN last.before ELSE last.trace[k - 1].after
  /\ parser_state = IF last.trace = << >> THEN last.before
                    ELSE last.trace[Len(last.trace)].after

\* the introductions before part e.part of the last call
Earlier(e) == { b \in Range(introduced) :
                  b.call < called \/ (b.call = called /\ b.part < e.part) }

\* C1: whenever Packet.frombitarray returns without raising, the packet's
\* tobitarray() is the input, bit for bit, padding included.
C1_RoundTrip ==
  (called > 0 /\ last.exc = NoExc) => Packet_tobitarray(last.packet) = last.bits

\* C2: a channel becomes bound only through a payload on it whose body starts
\* with a 32-bit class key; a payload of size > 0 on a bound channel keeps the
\* binding's class and instance name and is read as properties of the bound
\* class from its first bit; a payload of size 0 on a bound channel unbinds it.
C2_ChannelStateMachine ==
  /\ Chained
  /\ \A e \in Range(last.trace) :
       \A c \in DOMAIN e.after.channels \ DOMAIN e.before.channels :
         /\ HasPayload(e.part)
         /\ ChannelOf(e) = c
         /\ ReadClassKey(e)
  /\ \A e \in Steps :
       /\ (WasBound(e) /\ SizeOf(e) > 0) =>
            /\ IsBound(e)
            /\ e.after.channels[ChannelOf(e)] = e.before.channels[ChannelOf(e)]
            /\ PayloadOf(e).instancename = Some(e.before.channels[ChannelOf(e)].instancename)
            /\ PureStream(e, e.before.class_dict[e.before.channels[ChannelOf(e)].class])
       /\ (WasBound(e) /\ SizeOf(e) = 0) => ~IsBound(e)

\* a payload of size > 0 arrived on a bound channel and left it bound
C2_Witness ==
  \E e \in Steps :
    /\ WasBound(e) /\ SizeOf(e) > 0 /\ IsBound(e)
    /\ PayloadOf(e).bitsleftreason = None

\* C3: a binding leaves the channel table exactly when a payload of declared
\* size 0 arrives on its channel; that payload is marked object_deleted and
\* serialises to the bits it was read from; nothing else removes a binding.
C3_RemovedOnlyBySizeZero ==
  /\ Chained
  /\ \A e \in Range(last.trace) :
       /\ \A c \in DOMAIN e.before.channels :
            c \notin DOMAIN e.after.channels
              <=> (e.completed /\ ChannelOf(e) = c /\ SizeOf(e) = 0)
       /\ (e.completed /\ WasBound(e) /\ SizeOf(e) = 0) =>
            /\ PayloadOf(e).object_deleted
            /\ PacketData_tobitarray(last.packet.parts[e.part]) = PartBits(e)
       /\ (e.completed /\ PayloadOf(e).object_deleted) => (WasBound(e) /\ SizeOf(e) = 0)

\* a size-0 payload has just removed the binding of its channel
C3_Witness ==
  \E e \in Steps :
    /\ WasBound(e) /\ SizeOf(e) = 0 /\ ~IsBound(e)
    /\ PayloadOf(e).object_deleted

\* C4 as stated: channel 0 is bound to the root class before every payload on
\* it, the first included, and no payload on channel 0 has a class prefix
\* taken from its body.
C4_RootBoundFromStart ==
  \A e \in Steps :
    ChannelOf(e) = 0 =>
      /\ WasBound(e)
      /\ PayloadOf(e).object_class = None

\* C4 amended: channel 0 starts unbound; the first payload of at least 32 bits
\* on it while unbound has 32 bits taken from its body as a class prefix and
\* binds channel 0 to the root class whatever those bits are; while channel 0
\* is bound its class is the root class and payloads on it are read as
\* properties of the root class from their first bit.
C4_RootBoundByFirstPayload ==
  /\ called = 0 => 0 \notin DOMAIN parser_state.channels
  /\ 0 \in DOMAIN parser_state.channels =>
       /\ parser_state.channels[0].class = NoneKey
       /\ parser_state.class_dict[NoneKey].name = "FirstServerObject"
  /\ \A e \in Steps :
       ChannelOf(e) = 0 =>
         /\ (~WasBound(e) /\ SizeOf(e) >= 32) =>
              /\ ReadClassKey(e)
              /\ IsBound(e)
              /\ e.after.channels[0].class = NoneKey
         /\ (WasBound(e) /\ SizeOf(e) > 0) =>
              PureStream(e, e.before.class_dict[NoneKey])

\* the first payload on channel 0 had 32 bits taken as a class prefix that is
\* not the key of any class, and channel 0 is bound to the root class
C4_Witness ==
  \E e \in Steps :
    /\ ChannelOf(e) = 0 /\ ~WasBound(e) /\ ReadClassKey(e)
    /\ getclasskey(PayloadOf(e).object_class[1].classid[1]) \notin DOMAIN last.before.class_dict
    /\ IsBound(e)
    /\ e.after.class_dict[e.after.channels[0].class].name = "FirstServerObject"

\* the channel of e was introduced before and is unbound again
Reused(e) == ~WasBound(e) /\ \E b \in Earlier(e) : b.channel = ChannelOf(e)

\* the payload read a class prefix and made a binding under a name not given
\* before
Rebinds(e) ==
  /\ ReadClassKey(e)
  /\ IsBound(e)
  /\ PayloadOf(e).instancename = Some(e.after.channels[ChannelOf(e)].instancename)
  /\ \A b \in Earlier(e) : b.instancename # e.after.channels[ChannelOf(e)].instancename

\* C5 as stated: after a size-0 payload has unbound a channel, the next
\* payload of non-zero size on it reads a class prefix again and makes a new
\* binding with a new instance name.
C5_ReuseAnySize ==
  \A e \in Steps : (Reused(e) /\ SizeOf(e) > 0) => Rebinds(e)

\* C5 amended: ... the next payload of at least 32 bits on it reads a class
\* prefix again and makes a new binding with a new instance name.
C5_ReuseWithClassKey ==
  \A e \in Steps : (Reused(e) /\ SizeOf(e) >= 32) => Rebinds(e)

\* a channel that was unbound by a size-0 payload has been bound again
C5_Witness ==
  \E e \in Steps : Reused(e) /\ SizeOf(e) >= 32 /\ IsBound(e)

\* the number of introductions of classname among the first k - 1
IntroducedBefore(k, classname) ==
  Cardinality({ j \in 1..(k - 1) : introduced[j].classname = classname })

\* C6: the i-th introduction (from 0) of a class named C gets the instance
\* name C_i, whatever the channel and whatever was destroyed in between; the
\* count kept per class is the number of its introductions less one.
C6_InstanceNaming ==
  /\ \A k \in DOMAIN introduced :
       introduced[k].instancename =
         introduced[k].classname \o "_"
           \o ToString(IntroducedBefore(k, introduced[k].classname))
  /\ \A classname \in DOMAIN parser_state.instance_count :
       parser_state.instance_count[classname]
         = IntroducedBefore(Len(introduced) + 1, classname) - 1
  /\ \A k \in DOMAIN introduced :
       introduced[k].classname \in DOMAIN parser_state.instance_count

\* a class was introduced, destroyed and introduced again on the same channel
C6_Witness ==
  \E j, k \in DOMAIN introduced :
    /\ j < k
    /\ introduced[j].classname = introduced[k].classname
    /\ introduced[j].channel = introduced[k].channel
    /\ introduced[k].instancename = introduced[k].classname \o "_1"

\* the payload of the first part of the last packet holds an error
FirstPayloadHoldsError ==
  /\ Len(last.packet.parts) >= 1
  /\ HasPayload(1)
  /\ last.packet.parts[1].channel_data[1].payload[1].bitsleftreason # None
  /\ last.packet.parts[1].channel_data[1].payload[1].bitsleft # None

\* C7: an error inside a payload body (an unknown property, an error of a
\* value codec) is recorded on the payload as bitsleftreason and bitsleft,
\* and Packet.frombitarray returns the packet without raising.
C7_BodyErrorsCaptured ==
  (called > 0 /\ last.bits \in BodyFaultPackets) =>
    /\ last.exc = NoExc
    /\ FirstPayloadHoldsError

\* the packets whose payload body is a class key, one valid property and a
\* key that is no property of the class
UnknownPropertyPackets == { MkPacket(33, <<UnknownAfterValid>>), MkPacket(34, <<UnknownAfterNaN>>) }

\* C8: when a payload body holds one valid property followed by a key that
\* is not in the class's table, the payload holds exactly one decoded
\* property, bitsleft is what remains of the body after that property, and
\* the payload serialises to the bits it was read from.
C8_UnknownPropertyCapture ==
  \A e \in Steps :
    (last.bits \in UnknownPropertyPackets /\ ~WasBound(e)) =>
      LET properties == PayloadOf(e).instance[1].properties
          decoded == { i \in DOMAIN properties : properties[i].value # None }
          rest == SubSeq(Body(e), 32 + Len(ObjectProperty_tobitarray(properties[1])) + 1,
                         Len(Body(e)))
      IN /\ Cardinality(decoded) = 1
         /\ PayloadOf(e).bitsleft = Some(rest)
         /\ PacketData_tobitarray(last.packet.parts[e.part]) = PartBits(e)

\* C9: input that ends inside a framing field, a flag1a of 10 not followed
\* by 11, or a wrong number of bits after the terminator make
\* Packet.frombitarray raise ParseError; the next packet on the same Parser
\* is decoded.
C9_PacketFatal ==
  /\ (called > 0 /\ last.bits \in FramingFaultPackets) =>
       (last.exc # NoExc /\ last.exc[1].type = "ParseError")
  /\ (last.after_failure /\ last.bits \in SoundPackets) => last.exc = NoExc

\* C10: with exception_on_failure = False no exception leaves parsepacket;
\* input that fails to decode gives the packet so far, the bits left and a
\* message, input that decodes gives the packet, no bits and no message.
C10_ErrorMode ==
  (called > 0 /\ ~last.exception_on_failure) =>
    /\ last.raised = None
    /\ last.exc # NoExc => (last.errormsg # None /\ last.bitsleft # None)
    /\ last.exc = NoExc => (last.errormsg = None /\ last.bitsleft = None)

\* the payload of e ended with an error recorded on it
HoldsError(e) == HasPayload(e.part) /\ PayloadOf(e).bitsleftreason # None

\* C11: a payload that ends with a recorded bitsleft error, and a part of a
\* packet that is aborted, leave the channel table and the instance counters
\* as they were before that payload.
C11_StateOnlyBySuccess ==
  \A e \in Range(last.trace) :
    (~e.completed \/ HoldsError(e)) =>
      /\ e.after.channels = e.before.channels
      /\ e.after.instance_count = e.before.instance_count

\* the bits of a PacketData part before the size field of its payload
HeaderLen(part) ==
  2 + (IF part.unknownbits11 # None THEN 2 ELSE 0)
    + (IF part.unknownbits10 # None THEN 2 ELSE 0)
    + 10 + (IF part.channel_data[1].counter # None THEN 13 ELSE 0)

\* the 14 bits read as the size field of the payload of e
RawSize(e) ==
  SubSeq(e.bitsbefore, HeaderLen(last.packet.parts[e.part]) + 1,
         HeaderLen(last.packet.parts[e.part]) + 14)

\* bits 10 and 13 (from 0) of the 14 bits read are both set
Escaped(raw) == raw[11] = 1 /\ raw[14] = 1

\* the input of the part of e from its size field on
FromSize(e) ==
  SubSeq(PartBits(e), HeaderLen(last.packet.parts[e.part]) + 1, Len(PartBits(e)))

\* C12: when bits 10 and 13 of the 14 bits read as size are both set, the
\* size field is the first 13 of them, the 14th is the first bit of the body,
\* and the payload serialises to the 14 bits followed by the rest of the body;
\* in every other case the size field is the 14 bits.
C12_SizeEscape ==
  \A e \in Steps :
    /\ Escaped(RawSize(e)) =>
         /\ PayloadOf(e).nr_of_payload_bits = Some(13)
         /\ SizeOf(e) = toint(SubSeq(RawSize(e), 1, 13))
         /\ Len(FromSize(e)) = 13 + SizeOf(e)
         /\ Body(e)[1] = RawSize(e)[14]
         /\ PayloadData_tobitarray(PayloadOf(e)) = FromSize(e)
    /\ ~Escaped(RawSize(e)) =>
         /\ PayloadOf(e).nr_of_payload_bits = Some(14)
         /\ SizeOf(e) = toint(RawSize(e))
         /\ Len(FromSize(e)) = 14 + SizeOf(e)

\* C13 as stated: in the escape case the bit left out of the size is the
\* least significant of the 14 bits, the size is the number formed by the
\* upper 13 bits, and the bit left out is the first bit of the body.
C13_UpperThirteenBits ==
  \A e \in Steps :
    Escaped(RawSize(e)) =>
      /\ SizeOf(e) = toint(RawSize(e)) \div 2
      /\ Body(e)[1] = toint(RawSize(e)) % 2

\* C13 amended: in the escape case the bit left out of the size is the last
\* of the 14 bits read, the one that weighs 2^13, and it is 1; the size is the
\* number formed by the 13 bits read before it, the value of the 14 bits less
\* 8192; the bit left out is the first bit of the body.  For the 14 bits of
\* 0b10010010000100 = 9348 the size is 1156.
C13_LowerThirteenBits ==
  \A e \in Steps :
    Escaped(RawSize(e)) =>
      /\ toint(RawSize(e)) \div 8192 = 1
      /\ SizeOf(e) = toint(RawSize(e)) - 8192
      /\ Body(e)[1] = 1
      /\ Body(e) = SubSeq(FromSize(e), 14, Len(FromSize(e)))
      /\ toint(RawSize(e)) = 9348 => SizeOf(e) = 1156

\* a payload whose 14 size bits are those of 9348 has been read
C13_Witness ==
  \E e \in Steps :
    /\ toint(RawSize(e)) = 9348
    /\ Escaped(RawSize(e))
    /\ Len(Body(e)) = 1156

\* the 32 bits the payload of e took from its body as a class key
Prefix(e) == SubSeq(Body(e), 1, 32)

\* the first five of them are 10001
ServerObjectFamily(e) == SubSeq(Prefix(e), 1, 5) = <<1, 0, 0, 0, 1>>

\* the key of the class table entry the channel of e is bound to after e
BoundKey(e) == e.after.channels[ChannelOf(e)].class

\* C14: a class key whose first five bits are 10001 resolves to the class
\* descriptor that 10001 followed by 27 zero bits resolves to, whatever its
\* other 27 bits are: no entry is added to the class table and the channel
\* is bound to the entry of 10001 and 27 zeros (on channel 0, to the entry of
\* the root class, as it is for that key); the payload serialises with the 32
\* bits as they were read.
C14_ClassNormalization ==
  \A e \in Steps :
    (ReadClassKey(e) /\ ServerObjectFamily(e)) =>
      /\ DOMAIN e.after.class_dict = DOMAIN e.before.class_dict
      /\ IsBound(e)
      /\ BoundKey(e) = IF ChannelOf(e) = 0 THEN NoneKey ELSE KeyFirstServerObject
      /\ e.after.class_dict[BoundKey(e)].name = "FirstServerObject"
      /\ e.after.class_dict[BoundKey(e)].props = "FirstServerObjectProps"
      /\ PayloadOf(e).instancename = Some(e.after.channels[ChannelOf(e)].instancename)
      /\ SubSeq(PayloadData_tobitarray(PayloadOf(e)),
                PayloadOf(e).nr_of_payload_bits[1] + 1,
                PayloadOf(e).nr_of_payload_bits[1] + 32) = Prefix(e)

\* a key of the family with other bits set has been read on a channel other
\* than 0 and the channel is bound to the entry of 10001 and 27 zeros
C14_Witness ==
  \E e \in Steps :
    /\ ReadClassKey(e) /\ ServerObjectFamily(e)
    /\ Prefix(e) # KeyFirstServerObject
    /\ ChannelOf(e) # 0
    /\ BoundKey(e) = KeyFirstServerObject

\* the class table key of the 32 bits the payload of e took as a class key
KeyRead(e) == IF ServerObjectFamily(e) THEN KeyFirstServerObject ELSE Prefix(e)

\* the payload of e met a class key that the class table did not hold
MetUnknownClass(e) == ReadClassKey(e) /\ KeyRead(e) \notin DOMAIN e.before.class_dict

\* the class table after e holds one more entry, for the key read: a
\* descriptor named unknown<N>, N the number of entries before, without
\* properties
InsertedUnknown(e) ==
  /\ DOMAIN e.after.class_dict = DOMAIN e.before.class_dict \cup {KeyRead(e)}
  /\ e.after.class_dict[KeyRead(e)].name
       = "unknown" \o ToString(Cardinality(DOMAIN e.before.class_dict))
  /\ PropsTable(e.after.class_dict[KeyRead(e)].props) = << >>
  /\ \A k \in DOMAIN e.before.class_dict :
       e.after.class_dict[k].name = e.before.class_dict[k].name

\* the payload of e, on a bound channel, was read without a class prefix
NoPrefix(e) ==
  /\ PayloadOf(e).object_class = None
  /\ PayloadOf(e).instancename = Some(e.before.channels[ChannelOf(e)].instancename)
  /\ SizeOf(e) > 0 =>
       PureStream(e, e.before.class_dict[e.before.channels[ChannelOf(e)].class])

\* the payload of e read a class key the table held already: no entry is
\* added and every entry keeps its name
ReusedDescriptor(e) ==
  /\ DOMAIN e.after.class_dict = DOMAIN e.before.class_dict
  /\ \A k \in DOMAIN e.before.class_dict :
       e.after.class_dict[k].name = e.before.class_dict[k].name

\* C15 as stated: a class key that is not in the class table inserts a
\* descriptor named unknown<N> without properties and the channel is bound
\* to it; later payloads on the channel are read without a class prefix; a
\* later introduction of the same key uses the same descriptor and name.
C15_UnknownClassBound ==
  \A e \in Steps :
    /\ MetUnknownClass(e) =>
         /\ InsertedUnknown(e)
         /\ IsBound(e)
         /\ BoundKey(e) = KeyRead(e)
    /\ WasBound(e) => NoPrefix(e)
    /\ (ReadClassKey(e) /\ ~MetUnknownClass(e)) => ReusedDescriptor(e)

\* C15 amended: ... on a channel other than 0 the channel is bound to the
\* inserted descriptor; on channel 0 the descriptor is inserted as well and
\* the channel is bound to the root class.
C15_UnknownClassInserted ==
  \A e \in Steps :
    /\ MetUnknownClass(e) =>
         /\ InsertedUnknown(e)
         /\ IsBound(e)
         /\ BoundKey(e) = IF ChannelOf(e) = 0 THEN NoneKey ELSE KeyRead(e)
    /\ WasBound(e) => NoPrefix(e)
    /\ (ReadClassKey(e) /\ ~MetUnknownClass(e)) =>
         /\ ReusedDescriptor(e)
         /\ IsBound(e)
         /\ BoundKey(e) = IF ChannelOf(e) = 0 THEN NoneKey ELSE KeyRead(e)

\* a key that an earlier payload had put in the class table as unknown<N> has
\* been introduced again, on a channel other than 0, as the second instance of
\* that class
C15_Witness ==
  \E e \in Steps :
    /\ ReadClassKey(e) /\ ~MetUnknownClass(e)
    /\ KeyRead(e) \notin DOMAIN ParserState.class_dict
    /\ ChannelOf(e) # 0
    /\ e.after.class_dict[BoundKey(e)].name
         = "unknown" \o ToString(Cardinality(DOMAIN ParserState.class_dict))
    /\ PayloadOf(e).instancename
         = Some(e.after.class_dict[BoundKey(e)].name \o "_1")

\* the padding bits of the last packet, if it was accepted
PaddingOf(packet) == IF packet.paddingbits = None THEN << >> ELSE packet.paddingbits[1]

\* the bits of the last input up to and including the terminator, if it was
\* accepted
ParsedBits == Len(last.bits) - Len(PaddingOf(last.packet))

\* C16: after the terminator the number of bits left must be
\* (8 - parsed_bits mod 8) mod 8, a number in 0..7; a packet whose parsed bits
\* are a multiple of 8 is accepted with no padding bits and rejected with
\* eight.
C16_PaddingCount ==
  /\ (called > 0 /\ last.exc = NoExc) =>
       Len(PaddingOf(last.packet)) = (8 - (ParsedBits % 8)) % 8
  /\ (called > 0 /\ last.bits = SevenAcks) => last.exc = NoExc
  /\ (called > 0 /\ last.bits = SevenAcks \o PadPattern) =>
       (last.exc # NoExc /\ last.exc[1].type = "ParseError")

\* C17: every packet that Packet.frombitarray accepts serialises to a whole
\* number of bytes.
C17_ByteAlignment ==
  (called > 0 /\ last.exc = NoExc) => Len(Packet_tobitarray(last.packet)) % 8 = 0

\* an accepted packet with data parts and padding bits
C17_Witness ==
  /\ called > 0
  /\ last.exc = NoExc
  /\ Len(last.packet.parts) > 0
  /\ Len(PaddingOf(last.packet)) \in 1..7
  /\ Len(Packet_tobitarray(last.packet)) = Len(last.bits)

\* the while loop of Packet.frombitarray ran to its end: the packet was
\* accepted, or rejected for the bits after the terminator
LoopDone ==
  \/ last.exc = NoExc
  \/ (last.exc # NoExc /\ last.exc[1].message = "Left over bits at the end of the packet")

\* the parts decoded are the ones the tag bits of the input announce
RECURSIVE Dispatched(_, _)
Dispatched(bits, parts) ==
  IF parts = << >>
  THEN bits # << >> /\ Head(bits) = 1 /\ Len(Tail(bits)) < 14
  ELSE IF Head(parts).isa = "PacketAck"
  THEN /\ Len(bits) >= 15
       /\ Head(bits) = 1
       /\ Head(parts).acknr = Some(toint(SubSeq(bits, 2, 15)))
       /\ Dispatched(SubSeq(bits, 16, Len(bits)), Tail(parts))
  ELSE /\ bits # << >>
       /\ Head(bits) = 0
       /\ Len(bits) >= 1 + Len(PacketData_tobitarray(Head(parts)))
       /\ Dispatched(SubSeq(bits, 2 + Len(PacketData_tobitarray(Head(parts))), Len(bits)),
                     Tail(parts))

\* C18: after the sequence number each part starts with a tag bit: 0 starts a
\* PacketData, 1 starts a PacketAck with a 14-bit number when at least 14 bits
\* follow it and is the terminator otherwise; the packet of sequence number 1,
\* an ack of 42, terminator and padding decodes to one PacketAck of 42 and
\* serialises to the input.
C18_PartDispatch ==
  /\ (called > 0 /\ LoopDone) =>
       /\ last.packet.seqnr = Some(toint(SubSeq(last.bits, 1, 14)))
       /\ Dispatched(SubSeq(last.bits, 15, Len(last.bits)), last.packet.parts)
  /\ (called > 0 /\ last.bits = MkPacket(1, <<MkAck(42)>>)) =>
       /\ last.exc = NoExc
       /\ last.packet.parts = << [isa |-> "PacketAck", acknr |-> Some(42)] >>
       /\ Packet_tobitarray(last.packet) = last.bits

\* an accepted packet with an ack, a data part and another ack
C18_Witness ==
  /\ called > 0
  /\ last.exc = NoExc
  /\ Len(last.packet.parts) = 3
  /\ last.packet.parts[1] = [isa |-> "PacketAck", acknr |-> Some(42)]
  /\ last.packet.parts[2].isa = "PacketData"
  /\ last.packet.parts[3] = [isa |-> "PacketAck", acknr |-> Some(7)]

\* the bits of a PacketData part after the escape marker 11, if it has one
Unescaped(b) == IF SubSeq(b, 1, 2) = <<1, 1>> THEN SubSeq(b, 3, Len(b)) ELSE b

\* the channel data of part p holds the channel read at b[at+1 .. at+10] and,
\* for a reliable frame only, the counter and the eight bits after it; the
\* size field of the payload follows them
Framed(p, b, at, reliable) ==
  /\ p.channel_data # None
  /\ p.channel_data[1].channel = Some(toint(SubSeq(b, at + 1, at + 10)))
  /\ p.channel_data[1].payload # None
  /\ p.channel_data[1].payload[1].reliable = reliable
  /\ IF reliable
     THEN /\ p.channel_data[1].counter = Some(toint(SubSeq(b, at + 11, at + 15)))
          /\ p.channel_data[1].unknownbits = Some(SubSeq(b, at + 16, at + 23))
          /\ ChannelData_tobitarray(p.channel_data[1])
               = SubSeq(b, at + 1, at + Len(ChannelData_tobitarray(p.channel_data[1])))
     ELSE /\ p.channel_data[1].counter = None
          /\ p.channel_data[1].unknownbits = None
          /\ Len(ChannelData_tobitarray(p.channel_data[1])) <= Len(b) - at

\* the part of e was aborted with this ParseError, before any channel data
RejectedFrame(e, p, message) ==
  /\ ~e.completed
  /\ p.channel_data = None
  /\ last.exc = Some([type |-> "ParseError", message |-> message, bitsleft |-> e.bitsafter])

\* the frame of e, read from the bits of the input
FrameRead(e, p, b) ==
  /\ p.flag1a = Some(SubSeq(b, 1, 2))
  /\ (p.unknownbits10 # None) <=> (SubSeq(b, 1, 2) = <<1, 0>>)
  /\ CASE SubSeq(b, 1, 2) = <<0, 0>> -> Framed(p, b, 2, FALSE)
       [] SubSeq(b, 1, 2) = <<0, 1>> -> Framed(p, b, 2, TRUE)
       [] SubSeq(b, 1, 2) = <<1, 0>> ->
            /\ p.unknownbits10 = Some(SubSeq(b, 3, 4))
            /\ IF SubSeq(b, 3, 4) = <<1, 1>>
               THEN Framed(p, b, 4, TRUE)
               ELSE RejectedFrame(e, p, "Unexpected value for unknownbits10: "
                                          \o to01(SubSeq(b, 3, 4)))
       [] SubSeq(b, 1, 2) = <<1, 1>> ->
            RejectedFrame(e, p, "Unexpected value for flag1a: 11")

\* C19: flag1a 00 is an unreliable frame (channel, no counter), 01 a reliable
\* frame (channel, 5-bit counter, 8 bits), 10 a reliable frame behind two
\* bits that must be 11; a leading 11 is a marker after which one more flag1a
\* is read by the same rules; the counter and the 8 bits are there exactly
\* for the reliable frames.
C19_Framing ==
  \A e \in Range(last.trace) :
    Len(e.bitsbefore) >= 2 + 2 + 2 + 10 + 5 + 8 =>
      /\ (last.packet.parts[e.part].unknownbits11 # None)
           <=> (SubSeq(e.bitsbefore, 1, 2) = <<1, 1>>)
      /\ FrameRead(e, last.packet.parts[e.part], Unescaped(e.bitsbefore))
      /\ last.packet.parts[e.part].channel_data # None =>
           /\ (last.packet.parts[e.part].channel_data[1].counter # None)
                <=> (last.packet.parts[e.part].flag1a \in {Some(<<0, 1>>), Some(<<1, 0>>)})
           /\ (last.packet.parts[e.part].channel_data[1].unknownbits # None)
                <=> (last.packet.parts[e.part].flag1a \in {Some(<<0, 1>>), Some(<<1, 0>>)})

\* an accepted packet whose part is a reliable frame with flag1a 10 behind the
\* marker 11
C19_Witness ==
  /\ called > 0
  /\ last.exc = NoExc
  /\ Len(last.packet.parts) = 1
  /\ last.packet.parts[1].isa = "PacketData"
  /\ last.packet.parts[1].unknownbits11 # None
  /\ last.packet.parts[1].flag1a = Some(<<1, 0>>)
  /\ last.packet.parts[1].unknownbits10 = Some(<<1, 1>>)
  /\ last.packet.parts[1].channel_data[1].counter = Some(3)
  /\ last.packet.parts[1].channel_data[1].unknownbits = Some(u(129, 8))

\* the channel table and the instance counters of two parser states agree
SameSession(s, t) ==
  /\ s.channels = t.channels
  /\ s.instance_count = t.instance_count

\* C20: only the payload codec changes the session state: between the data
\* parts (sequence number, tag bits, acks, terminator, padding) and in a data
\* part that ends before its payload (flags, channel, counter, the eight bits)
\* the channel table and the instance counters stay as they are.
C20_OnlyPayloadChangesState ==
  /\ \A k \in DOMAIN last.trace :
       SameSession(last.trace[k].before,
                   IF k = 1 THEN last.before ELSE last.trace[k - 1].after)
  /\ SameSession(parser_state,
                 IF last.trace = << >> THEN last.before
                 ELSE last.trace[Len(last.trace)].after)
  /\ \A e \in Range(last.trace) :
       ~HasPayload(e.part) => SameSession(e.after, e.before)

\* a call on a parser with a bound channel whose packet is rejected in the
\* flags of a data part, and the channel is still bound
C20_Witness ==
  /\ called > 1
  /\ last.before.channels # << >>
  /\ last.exc # NoExc
  /\ Len(last.trace) = 1
  /\ ~HasPayload(1)
  /\ parser_state.channels = last.before.channels

\* the parts of the last packet before part e.part that were on the channel
\* of e and got as far as an instance name
Affecting(e) ==
  { f \in Steps : /\ f.part < e.part
                  /\ ChannelOf(f) = ChannelOf(e)
                  /\ PayloadOf(f).instancename # None }

LatestBefore(e) == CHOOSE f \in Affecting(e) : \A g \in Affecting(e) : g.part <= f.part

\* the channel of e is bound when e is decoded, as the packets before and the
\* parts before e leave it, and the instance it is bound to
BoundByOrder(e) ==
  IF Affecting(e) = {} THEN ChannelOf(e) \in DOMAIN last.before.channels
  ELSE ~PayloadOf(LatestBefore(e)).object_deleted

NameByOrder(e) ==
  IF Affecting(e) = {} THEN last.before.channels[ChannelOf(e)].instancename
  ELSE PayloadOf(LatestBefore(e)).instancename[1]

\* every part is decoded against the binding the parts before it leave
DecodedInOrder ==
  \A e \in Steps :
    IF BoundByOrder(e)
    THEN /\ PayloadOf(e).object_class = None
         /\ PayloadOf(e).instancename = Some(NameByOrder(e))
         /\ SizeOf(e) = 0 <=> PayloadOf(e).object_deleted
    ELSE /\ PayloadOf(e).object_class # None
         /\ ~PayloadOf(e).object_deleted
         /\ SizeOf(e) >= 32 =>
              /\ ReadClassKey(e)
              /\ PayloadOf(e).instancename # None
              /\ ChannelOf(e) \in DOMAIN e.after.channels
              /\ e.after.channels[ChannelOf(e)].instancename = PayloadOf(e).instancename[1]

\* the parser state after the call is the state the last part left
LeftInOrder ==
  (called > 0 /\ last.trace # << >>) =>
    parser_state = last.trace[Len(last.trace)].after

\* C21: the effects on the parser state are applied in the order of the
\* packets and, inside a packet, in the order of the parts: a part on a
\* channel is decoded against the binding that the parts and packets before
\* it have left, and a packet starts from the state the packet before it left.
C21_Ordering ==
  /\ [](DecodedInOrder /\ LeftInOrder)
  /\ [][last'.before = parser_state]_vars

\* in one packet a part ends the object of a channel and the part after it
\* introduces an object on the same channel, on a parser that had it bound
C21_Witness ==
  /\ called > 1
  /\ \E e \in Steps :
       /\ Affecting(e) # {}
       /\ PayloadOf(LatestBefore(e)).object_deleted
       /\ ReadClassKey(e)
       /\ ChannelOf(e) \in DOMAIN parser_state.channels

\* C22: a payload whose body decoding stopped with a recorded error
\* serialises to its size field, what was decoded of the body and the
\* bitsleft bits, and that is the size field and the whole body as they were
\* read.
C22_PartialRoundTrip ==
  \A e \in Steps :
    HoldsError(e) =>
      /\ PayloadOf(e).bitsleft # None
      /\ PayloadData_tobitarray(PayloadOf(e)) = FromSize(e)

\* the payload of e introduces a TrGameReplicationInfo whose first property
\* is ServerName, a string
StringProbe(e) ==
  /\ ~WasBound(e)
  /\ SizeOf(e) >= 38
  /\ SubSeq(Body(e), 1, 32) = KeyTrGameReplicationInfo
  /\ SubSeq(Body(e), 33, 38) = <<0,1,1,0,1,0>>

\* the bits of that string: the size field and what follows it in the body
StringBits(e) == SubSeq(Body(e), 39, Len(Body(e)))

DeclaredSize(b) == toint(SubSeq(b, 1, 32))

\* byte k (from 1) after the size field, where the body holds all of it
StringByte(b, k) == toint(SubSeq(b, 32 + 8 * (k - 1) + 1, 32 + 8 * k))

\* the size field is followed by what it declares: nothing for 0, and for
\* S > 0 at least S bytes, S - 1 of them not zero and then a zero
WellFormedString(b) ==
  /\ Len(b) >= 32
  /\ \/ DeclaredSize(b) = 0
     \/ /\ Len(b) >= 32 + 8 * DeclaredSize(b)
        /\ \A k \in 1..(DeclaredSize(b) - 1) : StringByte(b, k) # 0
        /\ StringByte(b, DeclaredSize(b)) = 0

FirstProperty(e) == PayloadOf(e).instance[1].properties[1]

StringDecoded(e) ==
  /\ FirstProperty(e).value # None
  /\ FirstProperty(e).value[1].kind = "String"

\* C23: a string of declared size S > 0 decodes only if at least S bytes
\* follow the size field, S - 1 of them not zero and the S-th zero, and then
\* takes 32 + 8 S bits; size 0 takes the 32 bits and gives the empty string;
\* any other input is rejected with the error of the length mismatch.
C23_StringCodec ==
  \A e \in Steps :
    (StringProbe(e) /\ Len(StringBits(e)) >= 32) =>
      /\ StringDecoded(e) <=> WellFormedString(StringBits(e))
      /\ StringDecoded(e) =>
           /\ FirstProperty(e).value[1].size = DeclaredSize(StringBits(e))
           /\ Len(FirstProperty(e).value[1].value)
                = (IF DeclaredSize(StringBits(e)) = 0 THEN 0
                   ELSE DeclaredSize(StringBits(e)) - 1)
           /\ Len(StringBits(e)) >= 32 + 8 * DeclaredSize(StringBits(e))
      /\ ~WellFormedString(StringBits(e)) =>
           \E n \in 1..Len(StringBits(e)) :
             PayloadOf(e).bitsleftreason
               = Some("ERROR: string size (" \o ToString(n)
                        \o ") was not equal to expected size ("
                        \o ToString(DeclaredSize(StringBits(e))) \o ")")

\* the payload of e introduces a TrPlayerController whose first property is
\* an RPC with a parameter list
ParamsProbe(e) ==
  /\ ~WasBound(e)
  /\ SizeOf(e) >= 40
  /\ SubSeq(Body(e), 1, 32) = KeyTrPlayerController
  /\ PayloadOf(e).instance # None
  /\ PayloadOf(e).instance[1].properties # << >>
  /\ FirstProperty(e).value # None
  /\ FirstProperty(e).value[1].kind = "Params"

\* the member list of that RPC in the property table
MembersOf(e) ==
  DictGet(PropsTable("TrPlayerControllerProps"), SubSeq(Body(e), 33, 40),
          Prop("Unknown", "None", NoSize)).members

\* the number of bits the values of a Params value encode to
RECURSIVE EncodedValues(_)
EncodedValues(values) ==
  IF values = << >> THEN 0
  ELSE (IF Head(values).kind = "None" THEN 0 ELSE Len(value_tobitarray(Head(values))))
         + EncodedValues(Tail(values))

\* the bits of the encoding of a Params value that are not bits of its values
PresenceBits(v) == Len(value_tobitarray(v)) - EncodedValues(v.values)

\* C24 as stated: the encoding of a Params value has one presence bit for
\* each member of its list, the members without a value being encoded as a 0.
C24_OnePresenceBitPerMember ==
  \A e \in Steps :
    ParamsProbe(e) => PresenceBits(FirstProperty(e).value[1]) = Len(MembersOf(e))

\* C24 amended: the encoding of a Params value has one presence bit for each
\* presence bit that was read, followed by the member's value when the bit is
\* 1 and the value was decoded; the members after the point where decoding
\* stopped are not encoded, so the payload serialises to as many bits as
\* were read; a Params value decoded to its end has one presence bit for each
\* member.
C24_PresenceBitsAsRead ==
  \A e \in Steps :
    ParamsProbe(e) =>
      /\ PresenceBits(FirstProperty(e).value[1]) = Len(FirstProperty(e).value[1].presence)
      /\ Len(FirstProperty(e).value[1].presence) <= Len(MembersOf(e))
      /\ Len(FirstProperty(e).value[1].values) <= Len(FirstProperty(e).value[1].presence)
      /\ PayloadOf(e).bitsleftreason = None =>
           Len(FirstProperty(e).value[1].presence) = Len(MembersOf(e))
      /\ Len(PayloadData_tobitarray(PayloadOf(e))) = Len(FromSize(e))

\* a parameter list of two members whose decoding stopped inside the value of
\* the first: one presence bit, no value
C24_Witness ==
  \E e \in Steps :
    /\ ParamsProbe(e)
    /\ Len(MembersOf(e)) = 2
    /\ FirstProperty(e).value[1].presence = <<1>>
    /\ FirstProperty(e).value[1].values = << >>
    /\ PayloadOf(e).bitsleftreason # None

\* ------------------------------------------------------------------ C25

\* C25: two Parser objects share no mutable state. A call on one Parser
\* leaves the class registry, the instance counters and the channel table of
\* the other as they were, and what a call gives (the packet, the exception,
\* the parser state after it) is what Packet.frombitarray gives from the
\* called Parser's own state before the call, whatever the other Parser has
\* decoded in between: each session runs as it would alone.
C25_SessionIsolation ==
  [][/\ called' = called => parser_state' = parser_state /\ last' = last
     /\ other'.called = other.called => other' = other
     /\ called' # called =>
          LET r == Packet_frombitarray(Packet, last'.bits, parser_state)
          IN parser_state' = r.state /\ last'.packet = r.obj /\ last'.exc = r.exc
     /\ other'.called # other.called =>
          LET r == Packet_frombitarray(Packet, other'.bits, other.parser_state)
          IN other'.parser_state = r.state /\ other'.packet = r.obj
             /\ other'.exc = r.exc]_vars

\* both sessions have decoded packets and hold different channel tables,
\* class registries and instance counters
C25_Witness ==
  /\ called = MaxPackets /\ other.called = MaxPackets
  /\ parser_state.channels # other.parser_state.channels
  /\ parser_state.class_dict # other.parser_state.class_dict
  /\ parser_state.instance_count # other.parser_state.instance_count
  /\ parser_state.channels # ParserState.channels
  /\ other.parser_state.channels # ParserState.channels

\* ------------------------------------------------------------------ C26

\* sequence number 0, the terminator, and the padding bits given
EmptyPacket(padding) == u(0, 14) \o <<1>> \o padding

\* the call decoded its input to a packet without parts that holds the padding
\* given, serialises to its input, and left the parser state as it was
DecodedEmpty(padding) ==
  /\ last.exc = NoExc /\ last.raised = None /\ last.errormsg = None
  /\ last.packet.seqnr = Some(0)
  /\ last.packet.parts = << >>
  /\ last.packet.paddingbits = Some(padding)
  /\ Packet_tobitarray(last.packet) = last.bits
  /\ parser_state = last.before

\* C26 as stated: the 22-bit input of sequence number 0, terminator and seven
\* padding bits 0000000 decodes to a packet with no parts and padding 0000000
\* that serialises to the same bits.
C26_EmptyPacketSevenPadding ==
  (called > 0 /\ last.bits = EmptyPacket(Repeat(<<0>>, 7)))
    => DecodedEmpty(Repeat(<<0>>, 7))

\* C26: the empty packet is the 16-bit input of sequence number 0, the
\* terminator and the one padding bit that completes the second byte: it
\* decodes to a packet with no parts that holds that padding bit and serialises
\* to the same bits, in every parser state. With seven padding bits the input
\* is refused: 'Left over bits at the end of the packet', with the seven bits.
C26_EmptyPacket ==
  /\ \A bit \in {0, 1} :
       (called > 0 /\ last.bits = EmptyPacket(<<bit>>)) => DecodedEmpty(<<bit>>)
  /\ (called > 0 /\ last.bits = EmptyPacket(Repeat(<<0>>, 7)))
       => /\ last.errormsg = Some("Left over bits at the end of the packet")
          /\ last.bitsleft = Some(Repeat(<<0>>, 7))
          /\ last.packet.parts = << >>
          /\ last.packet.paddingbits = None
          /\ parser_state = last.before

\* the 16-bit empty packet was decoded by a Parser that holds bound channels
C26_Witness ==
  /\ called > 1
  /\ last.bits = EmptyPacket(<<0>>)
  /\ last.exc = NoExc
  /\ last.packet.paddingbits = Some(<<0>>)
  /\ DOMAIN parser_state.channels # {}

\* ------------------------------------------------------------------ C27

\* the property stream of the payload: its body, after the class key if the
\* payload read one
PropertyStream(e) ==
  IF PayloadOf(e).object_class # None THEN SubSeq(Body(e), 33, Len(Body(e))) ELSE Body(e)

\* the properties that were decoded completely: all of them, or all but the
\* one that was being read when the error was raised
CompleteProperties(e) ==
  LET properties == PayloadOf(e).instance[1].properties
  IN IF HoldsError(e) THEN SubSeq(properties, 1, Len(properties) - 1) ELSE properties

\* C27: the property stream of a payload is decoded as properties, each the
\* id_size bits of the class as key and then its value, until the stream is
\* used up; where bits remain after the last complete value that do not make
\* a further property, the payload records an error whose bitsleft is
\* exactly those bits.
C27_ObjectCodecLoop ==
  \A e \in Steps :
    (HasPayload(e.part) /\ PayloadOf(e).instance # None) =>
      LET complete == CompleteProperties(e)
          taken == Len(properties_tobitarray(complete))
          stream == PropertyStream(e)
          class_ == e.after.class_dict[(IF WasBound(e) THEN e.before ELSE e.after)
                                          .channels[ChannelOf(e)].class]
      IN /\ \A i \in DOMAIN complete :
              /\ complete[i].propertyid # None
              /\ complete[i].propertyid_size = class_.idsize
              /\ complete[i].value # None
         /\ taken <= Len(stream)
         /\ ~HoldsError(e) => taken = Len(stream)
         /\ HoldsError(e) =>
              PayloadOf(e).bitsleft = Some(SubSeq(stream, taken + 1, Len(stream)))

\* ------------------------------------------------------------------ C28

\* a payload that was decoded without error to one property with a value: the
\* value is decoded completely and its bits are the stream after the key
OneValue(e) ==
  /\ HasPayload(e.part)
  /\ PayloadOf(e).instance # None
  /\ ~HoldsError(e)
  /\ Len(PayloadOf(e).instance[1].properties) = 1
  /\ FirstProperty(e).propertyid # None
  /\ FirstProperty(e).value # None

\* the entry of the class's table for the key of that property
EntryOf(e) ==
  DictGet(PropsTable(e.after.class_dict[(IF WasBound(e) THEN e.before ELSE e.after)
                                           .channels[ChannelOf(e)].class].props),
          int2bitarray(FirstProperty(e).propertyid[1], FirstProperty(e).propertyid_size),
          Prop("Unknown", "None", NoSize))

\* the bits the value was decoded from
ValueBits(e) ==
  SubSeq(PropertyStream(e), FirstProperty(e).propertyid_size + 1, Len(PropertyStream(e)))

\* bits is, member by member, one presence bit and, where it is 1, as many
\* bits as the member's value encodes to
RECURSIVE ReadAsParams(_, _, _)
ReadAsParams(presence, values, bits) ==
  IF presence = << >> THEN values = << >> /\ bits = << >>
  ELSE /\ values # << >> /\ bits # << >>
       /\ Head(bits) = Head(presence)
       /\ IF Head(presence) = 1
          THEN /\ Head(values).kind # "None"
               /\ Len(value_tobitarray(Head(values))) < Len(bits)
               /\ ReadAsParams(Tail(presence), Tail(values),
                               SubSeq(bits, 2 + Len(value_tobitarray(Head(values))), Len(bits)))
          ELSE /\ Head(values) = NoValue
               /\ ReadAsParams(Tail(presence), Tail(values), Tail(bits))

\* C28: a property whose type is a list decodes as Params, one presence bit
\* for each member in order and the member's value where the bit is 1; a
\* property whose type is a tuple decodes as Struct, a value for each member
\* and no other bit; a property with an enum map decodes its size bits and
\* maps them to their label or to 'Unknown'. The completely decoded value
\* encodes to exactly the bits it was decoded from.
C28_ValueShapes ==
  \A e \in Steps :
    OneValue(e) =>
      LET entry == EntryOf(e)
          value == FirstProperty(e).value[1]
          bits == ValueBits(e)
      IN /\ entry.values # << >> =>
              /\ value.kind = "MultipleChoice"
              /\ Len(bits) = entry.size
              /\ value.valuebits = Some(bits)
              /\ value.value = Some(DictGet(entry.values, bits, "Unknown"))
         /\ (entry.values = << >> /\ entry.type = "list") =>
              /\ value.kind = "Params"
              /\ Len(value.presence) = Len(entry.members)
              /\ ReadAsParams(value.presence, value.values, bits)
         /\ (entry.values = << >> /\ entry.type = "tuple") =>
              /\ value.kind = "Struct"
              /\ Len(value.values) = Len(entry.members)
              /\ \A i \in DOMAIN value.values : value.values[i].kind # "None"
              /\ EncodedValues(value.values) = Len(bits)
         /\ (entry.values # << >> \/ entry.type \in {"list", "tuple"}) =>
              value_tobitarray(value) = bits

\* ------------------------------------------------------------------ C29

\* the widths of the keys of a property table
KeyWidths(props) == { Len(PropsTable(props)[i][1]) : i \in DOMAIN PropsTable(props) }

\* the class has the id size of its table: the one width of its keys, or 6
\* if it has no keys
HasTableWidth(class_) ==
  /\ Cardinality(KeyWidths(class_.props)) <= 1
  /\ class_.idsize \in (IF KeyWidths(class_.props) = {} THEN {6} ELSE KeyWidths(class_.props))

\* C29: the keys of the property table of every class of the registry have
\* one width; the class of every bound channel has that width as id size,
\* 6 if the table is empty, as it is for
\* every class that was not in the registry; every property of a payload,
\* whether the payload bound the channel or continues it, has its key read
\* with that width.
C29_PropertyIdWidth ==
  /\ \A key \in DOMAIN parser_state.class_dict :
       Cardinality(KeyWidths(parser_state.class_dict[key].props)) <= 1
  /\ \A channel \in DOMAIN parser_state.channels :
       HasTableWidth(parser_state.class_dict[parser_state.channels[channel].class])
  /\ \A e \in Steps :
       (HasPayload(e.part) /\ PayloadOf(e).instance # None) =>
         LET class_ == e.after.class_dict[(IF WasBound(e) THEN e.before ELSE e.after)
                                             .channels[ChannelOf(e)].class]
             properties == PayloadOf(e).instance[1].properties
         IN /\ HasTableWidth(class_)
            /\ \A i \in DOMAIN properties : properties[i].propertyid_size = class_.idsize
            /\ ~ReadClassKey(e) => class_.idsize = e.before.class_dict[
                                     e.before.channels[ChannelOf(e)].class].idsize

\* a payload continues a channel that is bound to a class with an empty
\* table, and has read a key of 6 bits; another channel is bound to a class
\* whose keys are not 6 bits wide
C29_Witness ==
  /\ \E e \in Steps :
       /\ HasPayload(e.part) /\ PayloadOf(e).instance # None
       /\ WasBound(e)
       /\ KeyWidths(e.before.class_dict[e.before.channels[ChannelOf(e)].class].props) = {}
       /\ PayloadOf(e).instance[1].properties # << >>
       /\ FirstProperty(e).propertyid_size = 6
       /\ FirstProperty(e).propertyid # None
  /\ \E channel \in DOMAIN parser_state.channels :
       parser_state.class_dict[parser_state.channels[channel].class].idsize \notin {6, NoSize}

\* ------------------------------------------------------------------ C30

\* the call would have raised RuntimeError with debug = True: the check of
\* the wrapper of PacketData.frombitarray fails for a part, or that of
\* Packet.frombitarray for the packet. (The wrappers of the objects inside a
\* part make the same check on their own bits before these are reached.)
DebugRaises ==
  \/ \E e \in Steps :
       debugbits(PacketData_tobitarray(last.packet.parts[e.part]),
                 e.bitsbefore, e.bitsafter) # NoExc
  \/ debugbits(Packet_tobitarray(last.packet), last.bits, << >>) # NoExc

\* C30: debug mode only checks: an input that parsepacket accepts with
\* debug = False does not make a wrapper of the debug = True run raise
\* RuntimeError, so both runs give the same packet and parser state.
C30_DebugIsPureCheck ==
  (called > 0 /\ last.exc = NoExc) => ~DebugRaises

\* C31: instance names are unique within a session: no two bindings ever
\* created, live or destroyed, have the same instance name, also when two
\* class keys share a class name and when the classes are unknown ones
C31_UniqueInstanceNames ==
  \A j, k \in DOMAIN introduced :
    j # k => introduced[j].instancename # introduced[k].instancename

\* channel 0 and another channel are bound to classes of two keys that have
\* one name, and two classes that are not in the table have been introduced
C31_Witness ==
  /\ \E j, k \in DOMAIN introduced :
       /\ introduced[j].channel = 0
       /\ introduced[k].channel # 0
       /\ introduced[j].classname = introduced[k].classname
       /\ parser_state.channels[0].class # parser_state.channels[introduced[k].channel].class
  /\ \E j, k \in DOMAIN introduced :
       /\ introduced[j].classname # introduced[k].classname
       /\ \A n \in {j, k} : \A key \in DOMAIN ParserState.class_dict :
            ParserState.class_dict[key].name # introduced[n].classname

\* C32: a payload on an unbound channel whose body has fewer than 32 bits,
\* the body of declared size 0 included, changes nothing in the parser state:
\* channels, instance counters and classes are as before, the payload is not
\* marked object_deleted, and the whole body is kept as bitsleft
C32_ShortBodyOnUnboundChannel ==
  \A e \in Steps :
    (~WasBound(e) /\ SizeOf(e) < 32) =>
      /\ e.after = e.before
      /\ ~PayloadOf(e).object_deleted
      /\ PayloadOf(e).bitsleft = Some(Body(e))
      /\ PayloadOf(e).instancename = None

\* a body of size 0 and a body of 5 bits have arrived on a channel that was
\* unbound, the second one after the channel had been bound and freed
C32_Witness ==
  /\ \E e \in Steps : ~WasBound(e) /\ SizeOf(e) \in 1..31
                        /\ \E b \in Range(introduced) : b.channel = ChannelOf(e)
  /\ \E e \in Steps : ~WasBound(e) /\ SizeOf(e) = 0

\* C33: at most one votekick is in progress on a game server: start_votekick
\* takes effect only when the kickee is in the players table and
\* player_being_kicked is None; otherwise it sends nothing, resets no vote,
\* adds no callback and leaves player_being_kicked as it is.  Every _do_kick,
\* of a vote that passed or failed, sets player_being_kicked to None.
C33_OneVotekick ==
  [][/\ sent'.op = "start_votekick" =>
          IF InTable(sent'.args[1]) /\ player_being_kicked = None
          THEN /\ player_being_kicked' = Some(sent'.args[1])
               /\ votekicks' = votekicks + 1
               /\ Len(pending_callbacks') = Len(pending_callbacks) + 1
               /\ sent'.messages = send_all_players(players, "VOTE_BY_X_KICK_PLAYER_X_YES_NO")
               /\ \A p \in Table : vote'[p] = None
          ELSE /\ sent'.messages = {}
               /\ UNCHANGED <<vote, pending_callbacks, player_being_kicked, votekicks,
                              players, blacklist>>
     /\ votekicks' # votekicks => player_being_kicked = None
     /\ sent'.votekick_passed # None => player_being_kicked' = None
    ]_vars

\* the second votekick of the session is open, the first one having ended,
\* and start_votekick has just been called against a player of the table
C33_Witness ==
  /\ sent.op = "start_votekick"
  /\ ~sent.took_effect
  /\ InTable(sent.args[1])
  /\ player_being_kicked # None
  /\ votekicks = 2

\* the eligible voters of the call that has just run who cast a vote, and
\* those of them who cast yes: one voter for every address of the table
CastVoters ==
  LET voters == eligible_voters_votes(sent.table, vote)
  IN { a \in DOMAIN voters : voters[a] # None }

YesVoters ==
  LET voters == eligible_voters_votes(sent.table, vote)
  IN { a \in CastVoters : voters[a][1] }

\* C34: when end_votekick runs with a vote in progress, the vote passes
\* exactly when at least 4 eligible voters, one for every player address,
\* have cast a vote and at least half of the votes cast are yes
C34_TallyAtTimeout ==
  (sent.op = "end_votekick" /\ sent.took_effect) =>
    (sent.votekick_passed = Some(TRUE)
       <=> /\ Cardinality(CastVoters) >= 4
           /\ 2 * Cardinality(YesVoters) >= Cardinality(CastVoters))

\* C35: no votekick ends with the player kicked unless the yes votes are at
\* least as many as the no votes among the votes cast, and never when every
\* vote cast is no or no vote has been cast
C35_NoKickWithoutYes ==
  sent.votekick_passed = Some(TRUE) =>
    /\ CastVoters # {}
    /\ YesVoters # {}
    /\ Cardinality(YesVoters) >= Cardinality(CastVoters \ YesVoters)

\* C36: the end_votekick callback that a votekick added ends that votekick
\* only: when it ends a vote, the vote is the one that added it
C36_CallbackEndsOwnVote ==
  (sent.op = "end_votekick" /\ sent.took_effect) => sent.fired[1].votekick = votekicks

\* C37: player_being_kicked is None or a player of the players table
C37_KickeeInTable ==
  player_being_kicked = None \/ InTable(player_being_kicked[1])

\* C38: whenever _do_kick ends a vote, the message with the result goes to
\* every player of the server, when the vote passed and when it failed
C38_OutcomeAnnounced ==
  sent.votekick_passed # None =>
    \A i \in DOMAIN sent.table :
      <<sent.table[i], IF sent.votekick_passed[1] THEN "PLAYER_X_HAS_BEEN_KICKED"
                       ELSE "PLAYER_X_WAS_NOT_VOTED_OUT">> \in sent.messages

\* the rules a kick can add to the blacklist
Rules == { <<p, Address(p)>> : p \in Players }

\* C39: provided the callbacks that are due are called, every votekick that
\* was started ends: player_being_kicked goes back to None, the state in which
\* a new votekick can start; and every rule that a passed vote adds to the
\* blacklist is removed in the end by the callback added for it, which holds
\* the player id and the address of the rule
C39_VotekickEnds ==
  /\ (player_being_kicked # None) ~> (player_being_kicked = None)
  /\ \A rule \in Rules : (rule \in blacklist) ~> (rule \notin blacklist)
  /\ [](\A rule \in blacklist :
          \E i \in DOMAIN pending_callbacks :
            /\ pending_callbacks[i].callback_func = "remove_blacklist_rule"
            /\ pending_callbacks[i].closure = rule)
  /\ [](sent.votekick_passed = Some(TRUE) =>
          /\ Len(sent.scheduled) = 1
          /\ sent.scheduled[1].closure = <<sent.kickee[1], Address(sent.kickee[1])>>)

\* two votekicks have been started and have ended, their callbacks have been
\* called, and the rule of a passed vote has just been removed
C39_Witness ==
  /\ sent.op = "remove_blacklist_rule"
  /\ sent.fired[1].closure \notin blacklist
  /\ votekicks = 2
  /\ player_being_kicked = None
  /\ pending_callbacks = << >>
====
